---- MODULE Spec2Model ----
(***************************************************************************)
(* A model of DatAlive's query orchestration and caching layer:            *)
(*   - CAGAgent      (datalive_agent/src/agents/cag_agent.py)              *)
(*   - OrchestratorAgent, UnifiedAgent (agents/src/agents/...)             *)
(* The key-value store (Redis) is a map from key strings to a value with   *)
(* an expiry time; simulated time is an integer number of seconds.         *)
(***************************************************************************)
EXTENDS Integers, Sequences, FiniteSets, TLC

VARIABLES
    store,      \* the key-value store: key |-> [val |-> value, exp |-> expiry time]
    now,        \* simulated wall clock (datetime.now()), in seconds
    last,       \* the last operation performed, its arguments and what it returned
    nops,       \* number of operations performed so far (bounded)
    cache_ttl,  \* CAGAgent.cache_ttl: the TTL table, query type |-> seconds
    call        \* the process_query call in progress and the await it stands at

vars == <<store, now, last, nops, cache_ttl, call>>

\* ------------------------------------------------------------------ bounds
MaxTime == 2
MaxCacheOps == 2
MaxAdminOps == 3

\* ------------------------------------------------------------ basic values
\* Python's None (a user id, a missing semantic hash, a function returning nothing).
None == "<None>"

\* Python truthiness of an optional string: None and "" are falsy.
Truthy(x) == x # None /\ x # ""

\* An optional value: <<>> is None, <<v>> is v.
Some(v) == <<v>>

\* Non-negative rationals n/d (d > 0), kept in lowest terms so equal numbers are
\* equal values.
RECURSIVE Gcd(_, _)
Gcd(a, b) == IF b = 0 THEN a ELSE Gcd(b, a % b)

Frac(n, d) == LET g == Gcd(n, d) IN [n |-> n \div g, d |-> d \div g]

FracAdd(a, b) == Frac(a.n * b.d + b.n * a.d, a.d * b.d)

FracDivInt(a, k) == Frac(a.n, a.d * k)

FracLess(a, b) == a.n * b.d < b.n * a.d

FracLeq(a, b) == a.n * b.d <= b.n * a.d

FracMin(a, b) == IF FracLess(b, a) THEN b ELSE a

Zero == Frac(0, 1)

One == Frac(1, 1)

Half == Frac(1, 2)

\* --------------------------------------------------------------- settings
\* Settings.cache_ttl_* as configured through the environment (CACHE_TTL_*), in
\* seconds.  The model runs a deployment configured with short TTLs that keep
\* the default order factual > analytical > temporal > personal.
settings ==
    [cache_ttl_factual |-> 4, cache_ttl_analytical |-> 3,
     cache_ttl_temporal |-> 2, cache_ttl_personal |-> 1]

\* CAGAgent.__init__: the table self.cache_ttl is set to, from the settings s
CacheTtlTable(s) ==
    [factual |-> s.cache_ttl_factual,
     analytical |-> s.cache_ttl_analytical,
     temporal |-> s.cache_ttl_temporal,
     personal |-> s.cache_ttl_personal,
     general |-> s.cache_ttl_factual]

\* The default TTL for every query type.
GeneralTtl(query_type) == cache_ttl["general"]

\* self.cache_ttl.get(query_type, self.cache_ttl['general'])
TtlFor(query_type) ==
    IF query_type \in DOMAIN cache_ttl THEN cache_ttl[query_type] ELSE cache_ttl["general"]

\* ------------------------------------------------------------------ inputs
QA == "What is DataLive?"
QC == "DataLive architecture"
QE == "Describe DataLive"

Queries == {QA, QC, QE}

UserIds == {None, "42", "42:9"}

SessionIds == {None, "s1"}

\* The user_context dictionaries UnifiedAgent passes to the cache.
Contexts == [user_id : UserIds, session_id : SessionIds]

QueryTypes == {"factual", "analytical", "temporal", "personal", "general"}

\* query.lower().strip()
lower_strip(text) ==
    CASE text = QA -> "what is datalive?"
      [] text = QC -> "datalive architecture"
      [] text = QE -> "describe datalive"

\* re.findall(r'\b\w+\b', text.lower())
findall_words(text) ==
    CASE text = QA -> <<"what", "is", "datalive">>
      [] text = QC -> <<"datalive", "architecture">>
      [] text = QE -> <<"describe", "datalive">>

\* The position of a word in the lexicographic order of the vocabulary
\* (list.sort() on strings).
WordRank(w) ==
    CASE w = "architecture" -> 1
      [] w = "datalive" -> 2
      [] w = "describe" -> 3
      [] w = "is" -> 4
      [] w = "what" -> 5

\* The embedding the collaborator returns for a text when it answers.  The
\* cosine similarities are QA-QC = 17/20 = 0.85 exactly, QA-QE = 4/sqrt(17) > 0.85
\* and QC-QE = 69/(20*sqrt(17)) < 0.85.
ModelEmbedding(text) ==
    CASE text = QA -> <<1, 0, 0, 0, 0>>
      [] text = QC -> <<17, 10, 3, 1, 1>>
      [] text = QE -> <<4, 0, 0, 1, 0>>

ZeroVector == <<0, 0, 0, 0, 0>>

\* EmbeddingClient.embed_text: the provider's vector, or the zero vector when the
\* provider call fails (the failure is caught inside embed_text).
embed_text(text, embedOk) == IF embedOk THEN ModelEmbedding(text) ELSE ZeroVector

\* ------------------------------------------------------------ key-value store
\* redis GET: the stored value, or <<>> (nil) when the key is absent.
RedisGet(st, key) == IF key \in DOMAIN st THEN Some(st[key].val) ELSE <<>>

\* redis SETEX key ttl value
RedisSetex(st, key, ttl, value, t) == (key :> [val |-> value, exp |-> t + ttl]) @@ st

\* redis DEL keys...
RedisDelete(st, keys) == [k \in DOMAIN st \ keys |-> st[k]]

\* Glob match for the patterns used here: a literal prefix followed by one "*",
\* or a literal key.
GlobMatch(pattern, key) ==
    LET n == Len(pattern) IN
    IF n > 0 /\ SubSeq(pattern, n, n) = "*"
    THEN Len(key) >= n - 1 /\ SubSeq(key, 1, n - 1) = SubSeq(pattern, 1, n - 1)
    ELSE key = pattern

\* redis KEYS pattern (as a set; the order of the reply is unspecified)
RedisKeys(st, pattern) == {k \in DOMAIN st : GlobMatch(pattern, k)}

\* An outage of the key-value store during one operation of the cache is given
\* by kv: <<>> when the store answers every call, <<n>> when it answers the
\* next n calls of the operation and raises on the call after them.
KvAllows(kv, n) == kv = <<>> \/ kv[1] >= n

KvAfter(kv, n) == IF kv = <<>> THEN <<>> ELSE <<kv[1] - n>>

\* --------------------------------------------------------------- CAGAgent
\* hashlib.md5(text.encode()).hexdigest(): an injective digest of the text.
_hash_text(text) == "md5<" \o text \o ">"

stop_words ==
    {"a", "an", "and", "are", "as", "at", "be", "by", "for", "from",
     "has", "he", "in", "is", "it", "its", "of", "on", "that", "the",
     "to", "was", "will", "with", "what", "how", "when", "where", "who"}

\* list.sort(): insertion of each word at its place.
RECURSIVE InsertSorted(_, _)
InsertSorted(w, s) ==
    IF s = <<>> THEN <<w>>
    ELSE IF WordRank(w) <= WordRank(Head(s)) THEN <<w>> \o s
    ELSE <<Head(s)>> \o InsertSorted(w, Tail(s))

RECURSIVE SortWords(_)
SortWords(s) == IF s = <<>> THEN <<>> ELSE InsertSorted(Head(s), SortWords(Tail(s)))

\* ' '.join(words)
RECURSIVE JoinWords(_)
JoinWords(s) ==
    IF s = <<>> THEN ""
    ELSE IF Len(s) = 1 THEN s[1]
    ELSE s[1] \o " " \o JoinWords(Tail(s))

\* seq[:n]
Take(s, n) == SubSeq(s, 1, IF Len(s) < n THEN Len(s) ELSE n)

SemanticWordLimit == 10

MinWordLength == 3

_get_semantic_hash(text) ==
    LET words == findall_words(text)
        meaningful_words ==
            SelectSeq(words, LAMBDA w : Len(w) > MinWordLength /\ w \notin stop_words)
    IN IF meaningful_words # <<>>
       THEN _hash_text(JoinWords(Take(SortWords(meaningful_words), SemanticWordLimit)))
       ELSE None

\* Keys that keep the records of a caller with a user id under that user's key
\* alone.
UserScopedKeys(query, user_context) ==
    IF Truthy(user_context.user_id)
    THEN <<"user:" \o user_context.user_id \o ":" \o _hash_text(query)>>
    ELSE <<"exact:" \o _hash_text(query),
           "normalized:" \o _hash_text(lower_strip(query))>>

_generate_cache_keys(query, user_context) ==
    LET exact_key == "exact:" \o _hash_text(query)
        normalized_key == "normalized:" \o _hash_text(lower_strip(query))
        user_keys ==
            IF Truthy(user_context.user_id)
            THEN <<"user:" \o user_context.user_id \o ":" \o _hash_text(query)>>
            ELSE <<>>
        session_keys ==
            IF Truthy(user_context.session_id)
            THEN <<"session:" \o user_context.session_id \o ":" \o _hash_text(query)>>
            ELSE <<>>
        semantic_hash == _get_semantic_hash(query)
        semantic_keys ==
            IF Truthy(semantic_hash) THEN <<"semantic:" \o semantic_hash>> ELSE <<>>
    IN <<exact_key, normalized_key>> \o user_keys \o session_keys \o semantic_keys

\* Freshness judged by the table in force now, for the record's query type.
IsFreshByTable(cached_result, t) ==
    t - cached_result.cached_at < TtlFor(cached_result.query_type)

\* age = now - cached_at; fresh iff age < ttl, where
\* ttl = cached_result.get('ttl', self.cache_ttl['general'])
_is_fresh(cached_result, t) ==
    t - cached_result.cached_at <
        (IF "ttl" \in DOMAIN cached_result THEN cached_result.ttl ELSE cache_ttl["general"])

\* A cosine similarity dot/(norm1*norm2), kept exactly as the pair
\* [d |-> dot, m |-> norm1^2 * norm2^2]: its value is d / sqrt(m), m > 0.
RECURSIVE Dot(_, _)
Dot(v1, v2) == IF v1 = <<>> THEN 0 ELSE Head(v1) * Head(v2) + Dot(Tail(v1), Tail(v2))

SimZero == [d |-> 0, m |-> 1]

\* A similarity that takes a zero vector for a perfect match.
CosineZeroAsOne(vec1, vec2) ==
    IF Dot(vec1, vec1) = 0 \/ Dot(vec2, vec2) = 0
    THEN [d |-> 1, m |-> 1]
    ELSE [d |-> Dot(vec1, vec2), m |-> Dot(vec1, vec1) * Dot(vec2, vec2)]

_cosine_similarity(vec1, vec2) ==
    LET dot_product == Dot(vec1, vec2)
        norm1sq == Dot(vec1, vec1)
        norm2sq == Dot(vec2, vec2)
    IN IF norm1sq = 0 \/ norm2sq = 0
       THEN SimZero
       ELSE [d |-> dot_product, m |-> norm1sq * norm2sq]

\* a > b for two similarities: their squares d^2/m are compared as exact
\* fractions, with the signs of the dot products taken into account.
SimGreater(a, b) ==
    LET fa == Frac(a.d * a.d, a.m)
        fb == Frac(b.d * b.d, b.m)
    IN IF a.d >= 0 /\ b.d >= 0 THEN FracLess(fb, fa)
       ELSE IF a.d >= 0 THEN TRUE
       ELSE IF b.d >= 0 THEN FALSE
       ELSE FracLess(fa, fb)

\* A threshold of 0.8 instead of 0.85.
LowerThreshold == [d |-> 4, m |-> 25]

\* similarity_threshold: float = 0.85, that is 17/20
similarity_threshold == [d |-> 17, m |-> 400]

ScanLimit == 50

\* The loop of _find_similar_cached_query over keys[:50].
RECURSIVE ScanSimilar(_, _, _, _, _)
ScanSimilar(keys, st, query_embedding, best_match, best_similarity) ==
    IF keys = <<>> THEN best_match
    ELSE
        LET cached_data == RedisGet(st, Head(keys)) IN
        IF cached_data = <<>>
        THEN ScanSimilar(Tail(keys), st, query_embedding, best_match, best_similarity)
        ELSE
            LET data == cached_data[1]
                similarity == _cosine_similarity(query_embedding, data.embedding)
            IN IF SimGreater(similarity, similarity_threshold)
                  /\ SimGreater(similarity, best_similarity)
               THEN ScanSimilar(Tail(keys), st, query_embedding,
                        Some([similarity_score |-> similarity,
                              original_query |-> data.query] @@ data.cache_data),
                        similarity)
               ELSE ScanSimilar(Tail(keys), st, query_embedding, best_match,
                                best_similarity)

\* keys: the reply of KEYS "semantic_embeddings:*", in the order the store gave it.
\* The store is called once for KEYS and once for every key scanned; when one
\* of these calls raises, the except clause returns None.
_find_similar_cached_query(st, query, embedOk, keys, kv) ==
    IF KvAllows(kv, 1 + Len(Take(keys, ScanLimit)))
    THEN ScanSimilar(Take(keys, ScanLimit), st, embed_text(query, embedOk), <<>>, SimZero)
    ELSE <<>>

\* A probing loop that gives up at the first stale record.
RECURSIVE ProbeKeysUntilStale(_, _, _, _)
ProbeKeysUntilStale(keys, st, t, kv) ==
    IF keys = <<>> THEN [hit |-> <<>>, st |-> st, failed |-> FALSE, kv |-> kv]
    ELSE
        LET key == Head(keys)
            cached_data == RedisGet(st, key)
        IN IF cached_data = <<>>
           THEN ProbeKeysUntilStale(Tail(keys), st, t, kv)
           ELSE IF _is_fresh(cached_data[1], t)
           THEN [hit |-> Some([cache_key |-> key] @@ cached_data[1]), st |-> st,
                 failed |-> FALSE, kv |-> kv]
           ELSE [hit |-> <<>>, st |-> RedisDelete(st, {key}), failed |-> FALSE, kv |-> kv]

\* A probing loop that writes the tag of the key back into the record it
\* returns.
RECURSIVE ProbeKeysTagging(_, _, _, _)
ProbeKeysTagging(keys, st, t, kv) ==
    IF keys = <<>> THEN [hit |-> <<>>, st |-> st, failed |-> FALSE, kv |-> kv]
    ELSE
        LET key == Head(keys)
            cached_data == RedisGet(st, key)
        IN IF cached_data = <<>>
           THEN ProbeKeysTagging(Tail(keys), st, t, kv)
           ELSE IF _is_fresh(cached_data[1], t)
           THEN [hit |-> Some([cache_key |-> key] @@ cached_data[1]),
                 st |-> [st EXCEPT ![key].val = [cache_key |-> key] @@ cached_data[1]],
                 failed |-> FALSE, kv |-> kv]
           ELSE ProbeKeysTagging(Tail(keys), RedisDelete(st, {key}), t, kv)

\* The probing loop of check_cache: [hit |-> the fresh record found (or <<>>),
\* st |-> the store after the stale keys met on the way were deleted,
\* failed |-> a call of the store raised, kv |-> the outage left].
RECURSIVE ProbeKeys(_, _, _, _)
ProbeKeys(keys, st, t, kv) ==
    IF keys = <<>> THEN [hit |-> <<>>, st |-> st, failed |-> FALSE, kv |-> kv]
    ELSE IF ~KvAllows(kv, 1) THEN [hit |-> <<>>, st |-> st, failed |-> TRUE, kv |-> kv]
    ELSE
        LET key == Head(keys)
            cached_data == RedisGet(st, key)
        IN IF cached_data = <<>>
           THEN ProbeKeys(Tail(keys), st, t, KvAfter(kv, 1))
           ELSE IF _is_fresh(cached_data[1], t)
           THEN [hit |-> Some([cache_key |-> key] @@ cached_data[1]), st |-> st,
                 failed |-> FALSE, kv |-> KvAfter(kv, 1)]
           ELSE IF ~KvAllows(kv, 2)
           THEN [hit |-> <<>>, st |-> st, failed |-> TRUE, kv |-> kv]
           ELSE ProbeKeys(Tail(keys), RedisDelete(st, {key}), t, KvAfter(kv, 2))

\* The body of check_cache without its except clause: a call of the store that
\* fails in the probing loop raises; one that fails in
\* _find_similar_cached_query is caught there and gives None.
CheckCacheUnguarded(st, query, user_context, embedOk, index_keys, t, kv) ==
    LET probe == ProbeKeys(_generate_cache_keys(query, user_context), st, t, kv) IN
    IF probe.failed
    THEN [raised |-> TRUE, ret |-> <<>>, st |-> probe.st, kv_failed |-> TRUE]
    ELSE IF probe.hit # <<>>
    THEN [raised |-> FALSE, ret |-> probe.hit, st |-> probe.st, kv_failed |-> FALSE]
    ELSE [raised |-> FALSE,
          ret |-> _find_similar_cached_query(probe.st, query, embedOk, index_keys, probe.kv),
          st |-> probe.st,
          kv_failed |-> ~KvAllows(probe.kv, 1 + Len(Take(index_keys, ScanLimit)))]

\* The body handed on as it is.
NoGuard(r) == r

\* What the except clause of check_cache makes of the body: the error is
\* logged and None returned.
CheckCacheGuard(r) ==
    IF r.raised THEN [raised |-> FALSE, ret |-> <<>>, st |-> r.st, kv_failed |-> TRUE]
    ELSE r

\* check_cache: [ret |-> what it returns (<<>> is None), st |-> the store
\* afterwards, raised |-> it raises to its caller, kv_failed |-> a call of the
\* store failed on the way]
check_cache(st, query, user_context, embedOk, index_keys, t, kv) ==
    CheckCacheGuard(CheckCacheUnguarded(st, query, user_context, embedOk, index_keys, t, kv))

\* _store_semantic_cache: the store afterwards; when the store raises, the
\* except clause logs it and nothing is written.
_store_semantic_cache(st, query, cache_data, embedOk, t, kv) ==
    LET semantic_data ==
            [query |-> query, embedding |-> embed_text(query, embedOk),
             cache_data |-> cache_data, created_at |-> t]
        semantic_key == "semantic_embeddings:" \o _hash_text(query)
    IN IF KvAllows(kv, 1)
       THEN RedisSetex(st, semantic_key, cache_ttl["analytical"], semantic_data, t)
       ELSE st

\* The loop left after its first key.
WriteFirstKeyOnly(keys, st, ttl, cache_data, t) ==
    IF keys = <<>> THEN st ELSE RedisSetex(st, Head(keys), ttl, cache_data, t)

\* for key in cache_keys: setex(key, ttl, cache_data)
RECURSIVE WriteKeys(_, _, _, _, _)
WriteKeys(keys, st, ttl, cache_data, t) ==
    IF keys = <<>> THEN st
    ELSE WriteKeys(Tail(keys), RedisSetex(st, Head(keys), ttl, cache_data, t),
                   ttl, cache_data, t)

\* The default confidence, whatever the result carries.
DefaultConfidence(result) == Half

\* result.get('confidence', 0.5)
ResultConfidence(result) ==
    IF "confidence" \in DOMAIN result THEN result.confidence ELSE Half

\* The record update_cache writes.
CacheData(query, result, user_context, query_type, t) ==
    [query |-> query, result |-> result, user_context |-> user_context,
     query_type |-> query_type, cached_at |-> t,
     confidence |-> ResultConfidence(result), ttl |-> TtlFor(query_type)]

\* The body of update_cache without its except clause: [st |-> the store
\* afterwards, raised, kv_failed]. When a SETEX of the loop fails, the keys
\* before it are written and the error raises; a failure in
\* _store_semantic_cache is caught there.
UpdateCacheUnguarded(st, query, result, user_context, query_type, embedOk, t, kv) ==
    LET cache_data == CacheData(query, result, user_context, query_type, t)
        cache_keys == _generate_cache_keys(query, user_context)
        ttl == TtlFor(query_type)
    IN IF KvAllows(kv, Len(cache_keys))
       THEN [raised |-> FALSE,
             kv_failed |-> ~KvAllows(kv, Len(cache_keys) + 1),
             st |-> _store_semantic_cache(WriteKeys(cache_keys, st, ttl, cache_data, t),
                                          query, cache_data, embedOk, t,
                                          KvAfter(kv, Len(cache_keys)))]
       ELSE [raised |-> TRUE, kv_failed |-> TRUE,
             st |-> WriteKeys(Take(cache_keys, kv[1]), st, ttl, cache_data, t)]

\* What the except clause of update_cache makes of the body: the error is
\* logged and update_cache returns.
UpdateCacheGuard(r) == [r EXCEPT !.raised = FALSE]

\* update_cache
update_cache(st, query, result, user_context, query_type, embedOk, t, kv) ==
    UpdateCacheGuard(UpdateCacheUnguarded(st, query, result, user_context, query_type,
                                          embedOk, t, kv))

\* invalidate_cache_pattern handing the count of deleted keys to its caller.
InvalidateReturningCount(st, pattern) ==
    LET keys == RedisKeys(st, pattern) IN
    [st |-> RedisDelete(st, keys), logged |-> Some(Cardinality(keys)),
     ret |-> Some(Cardinality(keys))]

\* invalidate_cache_pattern: the store afterwards, the count written to the log
\* (<<>>: nothing logged) and the value returned (<<>>: None)
invalidate_cache_pattern(st, pattern) ==
    LET keys == RedisKeys(st, pattern) IN
    IF keys # {}
    THEN [st |-> RedisDelete(st, keys), logged |-> Some(Cardinality(keys)), ret |-> <<>>]
    ELSE [st |-> st, logged |-> <<>>, ret |-> <<>>]

\* ------------------------------------------------- cache-level operations
\* The result handed to update_cache by a caller of the cache.
CacheResult == [answer |-> "DataLive is a RAG platform", confidence |-> Frac(19, 20)]

\* The query types the callers of this cache store: the longest and the
\* shortest TTL (one above, one below the TTL of the embedding index).
CacheQueryTypes == {"factual", "personal"}

NoContext == [user_id |-> None, session_id |-> None]

CacheContexts == {NoContext, [user_id |-> "42", session_id |-> "s1"]}

InvalidatePatterns == {"user:42:*", "session:*", "*"}

\* Every order in which the store may list the keys of S.
Perms(S) ==
    {f \in [1..Cardinality(S) -> S] : \A i, j \in 1..Cardinality(S) : f[i] = f[j] => i = j}

IndexPattern == "semantic_embeddings:*"

Init ==
    /\ store = <<>>
    /\ cache_ttl = CacheTtlTable(settings)
    /\ call = [pc |-> "idle"]
    /\ now = 0
    /\ last = [op |-> "init"]
    /\ nops = 0

\* CAGAgent.update_cache(query, result, user_context, query_type)
UpdateCache(query, result, user_context, query_type, embedOk) ==
    /\ store' = update_cache(store, query, result, user_context, query_type, embedOk, now,
                             <<>>).st
    /\ last' = [op |-> "update_cache", query |-> query, result |-> result,
                user_context |-> user_context, query_type |-> query_type,
                at |-> now, ret |-> <<>>]
    /\ nops' = nops + 1
    /\ UNCHANGED <<now, cache_ttl, call>>

\* CAGAgent.check_cache(query, user_context)
CheckCache(query, user_context, embedOk, index_keys) ==
    /\ LET r == check_cache(store, query, user_context, embedOk, index_keys, now, <<>>) IN
       /\ store' = r.st
       /\ last' = [op |-> "check_cache", query |-> query, user_context |-> user_context,
                   embedOk |-> embedOk, at |-> now, ret |-> r.ret]
    /\ nops' = nops + 1
    /\ UNCHANGED <<now, cache_ttl, call>>

\* DELETE /cache/invalidate: the route calls invalidate_cache_pattern, drops what
\* it returns and answers with a message.
InvalidateCache(pattern) ==
    /\ LET r == invalidate_cache_pattern(store, pattern) IN
       /\ store' = r.st
       /\ last' = [op |-> "invalidate_cache_pattern", pattern |-> pattern,
                   before |-> store, logged |-> r.logged, ret |-> r.ret,
                   response |-> [message |-> "Cache invalidated for pattern: " \o pattern]]
    /\ nops' = nops + 1
    /\ UNCHANGED <<now, cache_ttl, call>>

\* One second passes.
Tick ==
    /\ now < MaxTime
    /\ now' = now + 1
    /\ UNCHANGED <<store, last, nops, cache_ttl, call>>

\* The key-value store drops the keys whose TTL has run out.
RedisExpire ==
    /\ \E k \in DOMAIN store : store[k].exp <= now
    /\ store' = [k \in {x \in DOMAIN store : store[x].exp > now} |-> store[k]]
    /\ last' = [op |-> "expire"]
    /\ UNCHANGED <<now, nops, cache_ttl, call>>

\* The cache used by its callers: update_cache, check_cache, time and expiry.
NextCache ==
    \/ /\ nops < MaxCacheOps
       /\ \E q \in Queries, c \in CacheContexts, qt \in CacheQueryTypes, e \in BOOLEAN :
             UpdateCache(q, CacheResult, c, qt, e)
    \/ /\ nops < MaxCacheOps
       /\ \E q \in Queries, c \in CacheContexts, e \in BOOLEAN,
             ks \in Perms(RedisKeys(store, IndexPattern)) : CheckCache(q, c, e, ks)
    \/ Tick
    \/ RedisExpire

SpecCache == Init /\ [][NextCache]_vars

\* Administrative invalidation of a cache filled by several users.
NextAdmin ==
    \/ /\ nops < MaxAdminOps
       /\ \E q \in {QA, QC}, c \in Contexts :
             UpdateCache(q, CacheResult, c, "general", TRUE)
    \/ /\ nops < MaxAdminOps
       /\ \E p \in InvalidatePatterns : InvalidateCache(p)

SpecAdmin == Init /\ [][NextAdmin]_vars

\* The service restarted with other CACHE_TTL_* values: every TTL at the
\* shortest, or every TTL at the longest, of the configured ones.
ShortSettings ==
    [cache_ttl_factual |-> settings.cache_ttl_personal,
     cache_ttl_analytical |-> settings.cache_ttl_personal,
     cache_ttl_temporal |-> settings.cache_ttl_personal,
     cache_ttl_personal |-> settings.cache_ttl_personal]

LongSettings ==
    [cache_ttl_factual |-> settings.cache_ttl_factual,
     cache_ttl_analytical |-> settings.cache_ttl_factual,
     cache_ttl_temporal |-> settings.cache_ttl_factual,
     cache_ttl_personal |-> settings.cache_ttl_factual]

\* CAGAgent.__init__ run again with the settings s, the key-value store kept.
Reconfigure(s) ==
    /\ cache_ttl # CacheTtlTable(s)
    /\ cache_ttl' = CacheTtlTable(s)
    /\ last' = [op |-> "reconfigure", at |-> now]
    /\ nops' = nops + 1
    /\ UNCHANGED <<store, now, call>>

MaxConfigOps == 3

\* A cache whose TTL table is changed while it holds records.
NextConfig ==
    \/ /\ nops < MaxConfigOps
       /\ \E qt \in CacheQueryTypes : UpdateCache(QA, CacheResult, NoContext, qt, TRUE)
    \/ /\ nops < MaxConfigOps
       /\ \E s \in {settings, ShortSettings, LongSettings} : Reconfigure(s)
    \/ /\ nops < MaxConfigOps
       /\ \E ks \in Perms(RedisKeys(store, IndexPattern)) :
             CheckCache(QA, NoContext, FALSE, ks)
    \/ Tick
    \/ RedisExpire

SpecConfig == Init /\ [][NextConfig]_vars

\* ------------------------------------------------------ OrchestratorAgent
\* What the completion collaborator hands back as result.data:
\*   [kind |-> "json", dict |-> d]   text holding one well-formed JSON object d,
\*                                   its values written as JSON tokens;
\*   [kind |-> "broken_json"]        text with braces that json.loads rejects;
\*   [kind |-> "text", text |-> t]   free text without braces;
\*   [kind |-> "not_a_string"]       a value re.search cannot scan.
JsonFlagValues == {"true", "false"}

FlagNames == {"use_rag", "use_kag", "use_temporal"}

\* The JSON objects that set any subset of the three flags to true or false.
FlagDicts ==
    UNION {[present -> JsonFlagValues] : present \in SUBSET FlagNames}

FreeTexts ==
    {"Use RAG vector search", "Explore the knowledge graph relationships over time",
     "I cannot decide", "Temporal analysis with external tools", "One paragraph"}

LLMOutputs ==
    {[kind |-> "json", dict |-> d] : d \in FlagDicts}
    \cup {[kind |-> "json", dict |-> [use_rag |-> "\"maybe\""]],
          [kind |-> "json", dict |-> [use_kag |-> "true", reasoning |-> "\"graph\""]],
          [kind |-> "broken_json"], [kind |-> "not_a_string"]}
    \cup {[kind |-> "text", text |-> t] : t \in FreeTexts}

\* llm_output.lower()
ToLower(text) ==
    CASE text = "Use RAG vector search" -> "use rag vector search"
      [] text = "Explore the knowledge graph relationships over time"
            -> "explore the knowledge graph relationships over time"
      [] text = "I cannot decide" -> "i cannot decide"
      [] text = "Temporal analysis with external tools"
            -> "temporal analysis with external tools"
      [] text = "One paragraph" -> "one paragraph"

\* sub in s
Contains(s, sub) ==
    \E i \in 1..(Len(s) - Len(sub) + 1) : SubSeq(s, i, i + Len(sub) - 1) = sub

ReasoningLimit == 200

\* A Python bool written as a JSON token, so that every dictionary value is a token.
JsonBool(b) == IF b THEN "true" ELSE "false"

ParseErrorDict ==
    [use_rag |-> "true", reasoning |-> "Parse error - using default RAG strategy"]

\* _parse_strategy: the dictionary it returns (it catches what it raises itself)
_parse_strategy(llm_output) ==
    CASE llm_output.kind = "json" -> llm_output.dict
      [] llm_output.kind = "broken_json" -> ParseErrorDict
      [] llm_output.kind = "not_a_string" -> ParseErrorDict
      [] llm_output.kind = "text" ->
            LET low == ToLower(llm_output.text) IN
            [use_rag |-> JsonBool(Contains(low, "rag") \/ Contains(low, "vector")),
             use_kag |-> JsonBool(Contains(low, "knowledge graph")
                                  \/ Contains(low, "relationship")),
             use_temporal |-> JsonBool(Contains(low, "temporal") \/ Contains(low, "time")),
             use_tools |-> JsonBool(Contains(low, "tool") \/ Contains(low, "external")),
             reasoning |-> SubSeq(llm_output.text, 1,
                                  IF Len(llm_output.text) < ReasoningLimit
                                  THEN Len(llm_output.text) ELSE ReasoningLimit)]

DefaultRagLimit == 10

DefaultKgDepth == 2

\* A boolean field of QueryStrategy(**strategy_dict): the dictionary's value, or
\* the field's default when the dictionary does not set it.
FlagField(d, name, default) == IF name \in DOMAIN d THEN d[name] = "true" ELSE default

\* QueryStrategy(**strategy_dict): <<the strategy>>, or <<>> when validation
\* rejects a flag that is no boolean.
QueryStrategy(d) ==
    IF \E name \in DOMAIN d \cap {"use_rag", "use_kag", "use_temporal", "use_tools"} :
           d[name] \notin JsonFlagValues
    THEN <<>>
    ELSE Some([use_rag |-> FlagField(d, "use_rag", TRUE),
               use_kag |-> FlagField(d, "use_kag", FALSE),
               use_temporal |-> FlagField(d, "use_temporal", FALSE),
               use_tools |-> FlagField(d, "use_tools", FALSE),
               rag_limit |-> DefaultRagLimit,
               kg_depth |-> DefaultKgDepth,
               time_range |-> None,
               reasoning |-> IF "reasoning" \in DOMAIN d THEN d.reasoning ELSE ""])

ErrorStrategy ==
    QueryStrategy([use_rag |-> "true",
                   reasoning |-> "Default strategy due to analysis error"])[1]

\* The try block of analyze_query: the collaborator call, the parse and the
\* construction of the strategy; raised is TRUE when one of them raises.
AnalyzeBody(query, llmOk, llm_output) ==
    IF ~llmOk THEN [raised |-> TRUE]
    ELSE LET strategy == QueryStrategy(_parse_strategy(llm_output)) IN
         IF strategy = <<>> THEN [raised |-> TRUE]
         ELSE [raised |-> FALSE, ret |-> strategy[1]]

\* analyze_query without its except clause.
AnalyzeUnguarded(query, llmOk, llm_output) == AnalyzeBody(query, llmOk, llm_output)

\* analyze_query: except Exception -> the default strategy
analyze_query(query, llmOk, llm_output) ==
    LET body == AnalyzeBody(query, llmOk, llm_output) IN
    IF body.raised THEN [raised |-> FALSE, ret |-> ErrorStrategy] ELSE body

\* The planner applied to every query and collaborator output.
InitPlanner ==
    /\ store = <<>>
    /\ cache_ttl = CacheTtlTable(settings)
    /\ call = [pc |-> "idle"]
    /\ now = 0
    /\ nops = 0
    /\ \E q \in Queries, ok \in BOOLEAN, out \in LLMOutputs :
          last = [op |-> "input", query |-> q, llmOk |-> ok, output |-> out]

AnalyzeQuery ==
    /\ last.op = "input"
    /\ LET r == analyze_query(last.query, last.llmOk, last.output) IN
       last' = [op |-> "analyze_query", query |-> last.query, llmOk |-> last.llmOk,
                output |-> last.output, raised |-> r.raised,
                ret |-> IF r.raised THEN <<>> ELSE Some(r.ret)]
    /\ nops' = nops + 1
    /\ UNCHANGED <<store, now, cache_ttl, call>>

NextPlanner == AnalyzeQuery

SpecPlanner == InitPlanner /\ [][NextPlanner]_vars

\* ------------------------------------------------------ retrieval agents
\* Each retrieval collaborator is given by its outcome: <<>> when the backing
\* store fails, <<what it found>> otherwise.
Hit(content, score) ==
    [content |-> content, score |-> score, document_title |-> "DataLive guide"]

\* RAGAgent.search
search(query, outcome) ==
    IF outcome = <<>>
    THEN [query |-> query, results |-> <<>>, total_results |-> 0,
          error |-> "vector search failed"]
    ELSE [query |-> query, results |-> outcome[1], total_results |-> Len(outcome[1])]

\* KAGAgent.analyze_relationships without its except clause.
AnalyzeRelationshipsUnguarded(query, outcome) ==
    IF outcome = <<>>
    THEN [raised |-> TRUE]
    ELSE [raised |-> FALSE,
          ret |-> [query |-> query, relationships |-> outcome[1].relationships,
                   insights |-> outcome[1].insights]]

\* KAGAgent.analyze_relationships
analyze_relationships(query, outcome) ==
    IF outcome = <<>>
    THEN [raised |-> FALSE,
          ret |-> [query |-> query, entities |-> <<>>, relationships |-> <<>>,
                   insights |-> <<>>, error |-> "graph query failed"]]
    ELSE [raised |-> FALSE,
          ret |-> [query |-> query, relationships |-> outcome[1].relationships,
                   insights |-> outcome[1].insights]]

\* KAGAgent.temporal_search
temporal_search(query, outcome) ==
    IF outcome = <<>>
    THEN [query |-> query, timeline |-> <<>>, trends |-> <<>>,
          error |-> "graph query failed"]
    ELSE [query |-> query, timeline |-> outcome[1], trends |-> <<>>]

ApologyText ==
    "I apologize, but I encountered an error while generating the answer. Please try again."

\* OrchestratorAgent.generate_answer: the completion's text, or the apology when
\* the completion call fails (outcome <<>>).
generate_answer(query, context, sources, outcome) ==
    IF outcome = <<>> THEN ApologyText ELSE outcome[1]

\* ---------------------------------------------------------- UnifiedAgent
RECURSIVE FracSum(_)
FracSum(s) == IF s = <<>> THEN Zero ELSE FracAdd(Head(s), FracSum(Tail(s)))

RelationshipNorm == 10

TimelineNorm == 5

\* min(rel_count / 10, 1.0) without the cap.
KagSignalUncapped(rel_count) == Frac(rel_count, RelationshipNorm)

\* min(rel_count / 10, 1.0)
KagSignal(rel_count) == FracMin(Frac(rel_count, RelationshipNorm), One)

\* min(timeline_count / 5, 1.0)
TemporalSignal(timeline_count) == FracMin(Frac(timeline_count, TimelineNorm), One)

\* _calculate_confidence
_calculate_confidence(results) ==
    LET rag_scores ==
            IF "rag" \in DOMAIN results
            THEN [i \in 1..Len(results.rag.results) |-> results.rag.results[i].score]
            ELSE <<>>
        scores ==
            (IF rag_scores # <<>>
             THEN <<FracDivInt(FracSum(rag_scores), Len(rag_scores))>> ELSE <<>>)
            \o (IF "kag" \in DOMAIN results
                THEN <<KagSignal(Len(results.kag.relationships))>> ELSE <<>>)
            \o (IF "temporal" \in DOMAIN results
                THEN <<TemporalSignal(Len(results.temporal.timeline))>> ELSE <<>>)
    IN IF scores # <<>> THEN FracDivInt(FracSum(scores), Len(scores)) ELSE Half

ContextLimit == 5

SourceLimit == 10

\* _combine_results: all_sources, the documents, then the relationships, then
\* the timeline events.
AllSources(results) ==
    LET rag_items == IF "rag" \in DOMAIN results THEN results.rag.results ELSE <<>>
        rels == IF "kag" \in DOMAIN results THEN results.kag.relationships ELSE <<>>
        events == IF "temporal" \in DOMAIN results THEN results.temporal.timeline ELSE <<>>
    IN [i \in 1..Len(rag_items) |->
           [type |-> "document", title |-> rag_items[i].document_title,
            content |-> rag_items[i].content, score |-> rag_items[i].score,
            source |-> "rag"]]
       \o [i \in 1..Len(rels) |->
           [type |-> "relationship", entities |-> <<rels[i].source, rels[i].target>>,
            relationship |-> rels[i].type, source |-> "kag"]]
       \o [i \in 1..Len(events) |->
           [type |-> "temporal", date |-> events[i].date,
            event |-> events[i].description, source |-> "temporal"]]

\* _combine_results: all_content, the documents' contents, then the insights.
AllContent(results) ==
    LET rag_items == IF "rag" \in DOMAIN results THEN results.rag.results ELSE <<>>
    IN [i \in 1..Len(rag_items) |-> rag_items[i].content]
       \o (IF "kag" \in DOMAIN results THEN results.kag.insights ELSE <<>>)

PromptSourceLimit == 5

\* The prompt generate_answer builds from its arguments: the query, the
\* context, and the first five of the sources it was handed.
Prompt(query, context, sources) ==
    [query |-> query, context |-> context,
     sources |-> Take(sources, PromptSourceLimit)]

\* The prompt the answer of _combine_results is written from.
SynthesisPrompt(results, query) ==
    Prompt(query, Take(AllContent(results), ContextLimit),
           Take(AllSources(results), SourceLimit))

\* _combine_results; synth is the outcome of the completion call that writes
\* the answer.
_combine_results(results, query, strategy, synth) ==
    [answer |-> generate_answer(query, Take(AllContent(results), ContextLimit),
                                Take(AllSources(results), SourceLimit), synth),
     sources |-> AllSources(results),
     confidence |-> _calculate_confidence(results)]

InSeq(x, s) == \E i \in 1..Len(s) : s[i] = x

\* A derivation that looks for semantic search first.
QueryTypeRagFirst(strategies) ==
    IF InSeq("RAG", strategies) THEN "factual"
    ELSE IF InSeq("KAG-Temporal", strategies) THEN "temporal"
    ELSE "general"

\* _determine_query_type
_determine_query_type(strategies) ==
    IF InSeq("KAG-Temporal", strategies) THEN "temporal"
    ELSE IF InSeq("KAG", strategies) /\ InSeq("RAG", strategies) THEN "analytical"
    ELSE IF InSeq("RAG", strategies) THEN "factual"
    ELSE "general"

RequestContext(request) ==
    [user_id |-> request.user_id, session_id |-> request.session_id]

\* A floor that lets the records of ordinary answers through.
FloorAtHalf == Half

\* The confidence a stored record must exceed to be served: 0.9
CacheConfidenceFloor == Frac(9, 10)

\* The second half of _check_cache: what it makes of the record cached_result
\* that check_cache handed back as r.ret.
CachedResponse(r) ==
    IF r.raised THEN [raised |-> TRUE, st |-> r.st, error |-> "CacheStoreError"]
    ELSE
    IF r.ret # <<>> /\ FracLess(CacheConfidenceFloor, r.ret[1].confidence)
    THEN IF {"answer", "sources"} \subseteq DOMAIN r.ret[1]
         THEN [raised |-> FALSE, st |-> r.st,
               ret |-> Some([answer |-> r.ret[1].answer,
                             sources |-> r.ret[1].sources,
                             confidence |-> r.ret[1].confidence,
                             strategy_used |-> IF "strategy_used" \in DOMAIN r.ret[1]
                                               THEN r.ret[1].strategy_used
                                               ELSE <<"CACHE">>,
                             processing_time |-> 0,
                             cached |-> TRUE,
                             metadata |-> IF "metadata" \in DOMAIN r.ret[1]
                                          THEN r.ret[1].metadata ELSE None])]
         ELSE [raised |-> TRUE, st |-> r.st, error |-> "KeyError"]
    ELSE [raised |-> FALSE, st |-> r.st, ret |-> <<>>]

\* _check_cache: raised is TRUE when building the response raises KeyError,
\* ret is <<the response>> or <<>> (None), st the store afterwards.
_check_cache(st, request, embedOk, index_keys, t, kv) ==
    CachedResponse(check_cache(st, request.query, RequestContext(request), embedOk,
                               index_keys, t, kv))

\* The result _update_cache hands to update_cache.
CacheResultOf(response) ==
    [answer |-> response.answer, sources |-> response.sources,
     confidence |-> response.confidence,
     strategy_used |-> response.strategy_used,
     metadata |-> response.metadata]

\* _update_cache: what update_cache did
_update_cache(st, request, response, embedOk, t, kv) ==
    update_cache(st, request.query, CacheResultOf(response), RequestContext(request),
                 _determine_query_type(response.strategy_used), embedOk, t, kv)

\* process_query is modelled step by step; env holds what the collaborators do
\* during the request: llmOk and llm_output for the planner, rag, kag and
\* temporal for the retrievals, synth for the answer, embedLookup, index_keys,
\* embedStore, kvLookup and kvStore for the cache (kvLookup is the outage of the
\* key-value store during lookup, kvStore the one during store), elapsed for
\* the seconds the request takes.
\* Every step yields [raised, ret, strategy, strategies_used, st, t]: raised is
\* TRUE when process_query re-raises to its caller, ret is the response, st the
\* store and t the clock when it returns.

\* Step 7: the return, after the cache update did what updated says.
Respond(response, strategy, updated, end_time) ==
    IF updated.raised
    THEN [raised |-> TRUE, st |-> updated.st, t |-> end_time, strategy |-> Some(strategy),
          strategies_used |-> response.strategy_used]
    ELSE [raised |-> FALSE, ret |-> response, strategy |-> Some(strategy),
          strategies_used |-> response.strategy_used, t |-> end_time,
          st |-> updated.st]

\* Step 6 without its test of request.use_cache.
UpdateAlways(response, strategy, st, request, env, end_time) ==
    Respond(response, strategy,
            _update_cache(st, request, response, env.embedStore, end_time, env.kvStore),
            end_time)

\* Step 6: the cache update, awaited before the return.
Update(response, strategy, st, request, env, end_time) ==
    Respond(response, strategy,
            IF request.use_cache
            THEN _update_cache(st, request, response, env.embedStore, end_time, env.kvStore)
            ELSE [raised |-> FALSE, kv_failed |-> FALSE, st |-> st],
            end_time)

\* Step 5: the response built from the combined result.
BuildResponse(combined_result, results, strategy, strategies_used, t, end_time) ==
    [answer |-> combined_result.answer,
     sources |-> combined_result.sources,
     confidence |-> combined_result.confidence,
     strategy_used |-> strategies_used,
     processing_time |-> end_time - t,
     cached |-> FALSE,
     metadata |->
        [strategy |-> strategy,
         result_counts |->
            [k \in DOMAIN results |->
                IF "results" \in DOMAIN results[k] THEN Len(results[k].results) ELSE 0]]]

\* Step 4: the results are combined.
Combine(results, strategy, strategies_used, st, request, env, t) ==
    Update(BuildResponse(_combine_results(results, request.query, strategy, env.synth),
                         results, strategy, strategies_used, t, t + env.elapsed),
           strategy, st, request, env, t + env.elapsed)

\* Step 3, after the graph call: kag is what analyze_relationships did.
Retrieve(kag, strategy, st, request, env, t) ==
    IF kag.raised
    THEN [raised |-> TRUE, st |-> st, t |-> t, strategy |-> Some(strategy),
          strategies_used |->
              (IF strategy.use_rag THEN <<"RAG">> ELSE <<>>) \o <<"KAG">>]
    ELSE Combine((IF strategy.use_rag
                  THEN [rag |-> search(request.query, env.rag)] ELSE <<>>)
                 @@ (IF strategy.use_kag THEN [kag |-> kag.ret] ELSE <<>>)
                 @@ (IF strategy.use_temporal
                     THEN [temporal |-> temporal_search(request.query, env.temporal)]
                     ELSE <<>>),
                 strategy,
                 (IF strategy.use_rag THEN <<"RAG">> ELSE <<>>)
                 \o (IF strategy.use_kag THEN <<"KAG">> ELSE <<>>)
                 \o (IF strategy.use_temporal THEN <<"KAG-Temporal">> ELSE <<>>),
                 st, request, env, t)

\* Step 3: the retrievals the plan enables, each listed in strategies_used
\* before it is called.
Planned(plan, st, request, env, t) ==
    IF plan.raised
    THEN [raised |-> TRUE, st |-> st, t |-> t, strategy |-> <<>>,
          strategies_used |-> <<>>]
    ELSE Retrieve(IF plan.ret.use_kag
                  THEN analyze_relationships(request.query, env.kag)
                  ELSE [raised |-> FALSE],
                  plan.ret, st, request, env, t)

\* Step 1, after the cache was asked: a raise, a cached response, or step 2.
AfterCacheCheck(cache_result, request, env, t) ==
    IF cache_result.raised
    THEN [raised |-> TRUE, st |-> cache_result.st, t |-> t, strategy |-> <<>>,
          strategies_used |-> <<>>]
    ELSE IF cache_result.ret # <<>>
    THEN [raised |-> FALSE, ret |-> cache_result.ret[1], st |-> cache_result.st,
          t |-> t, strategy |-> <<>>, strategies_used |-> <<>>]
    ELSE Planned(analyze_query(request.query, env.llmOk, env.llm_output),
                 cache_result.st, request, env, t)

\* process_query
process_query(st, request, env, t) ==
    AfterCacheCheck(IF request.use_cache
                    THEN _check_cache(st, request, env.embedLookup, env.index_keys, t,
                                      env.kvLookup)
                    ELSE [raised |-> FALSE, st |-> st, ret |-> <<>>],
                    request, env, t)

\* ------------------------------------------------ request-level operations
JsonPlan(rag, kag, temporal) ==
    [kind |-> "json",
     dict |-> [use_rag |-> JsonBool(rag), use_kag |-> JsonBool(kag),
               use_temporal |-> JsonBool(temporal)]]

\* Three hits whose scores average 0.8166..., and two that average 0.94.
GoodHits ==
    <<Hit("DataLive is a retrieval platform", Frac(9, 10)),
      Hit("It combines RAG, KAG and CAG", Frac(8, 10)),
      Hit("It runs on n8n", Frac(75, 100))>>

StrongHits ==
    <<Hit("DataLive is a retrieval platform", Frac(95, 100)),
      Hit("It combines RAG, KAG and CAG", Frac(93, 100))>>

Relationship == [source |-> "DataLive", target |-> "Neo4j", type |-> "USES"]

Relationships(n) == [i \in 1..n |-> Relationship]

Event == [date |-> "2024-01-01", description |-> "DataLive released"]

Events(n) == [i \in 1..n |-> Event]

GraphFound(n) == Some([relationships |-> Relationships(n), insights |-> <<"DataLive uses Neo4j">>])

AnswerText == "DataLive is a RAG platform"

ElapsedChoices == {0, 1}

\* The caller of process_query gets r back.
Returned(r, request, env) ==
    /\ store' = r.st
    /\ now' = r.t
    /\ last' = [op |-> "process_query", request |-> request, env |-> env,
                at |-> now, raised |-> r.raised, strategy |-> r.strategy,
                strategies_used |-> r.strategies_used,
                ret |-> IF r.raised THEN <<>> ELSE Some(r.ret)]
    /\ nops' = nops + 1
    /\ UNCHANGED <<cache_ttl, call>>

\* process_query(request) while the collaborators behave as env says
ProcessQuery(request, env) ==
    /\ now + env.elapsed <= MaxTime
    /\ Returned(process_query(store, request, env, now), request, env)

MaxRequests == 2

Requests == [query : {QA, QC}, user_id : {None}, session_id : {None}, use_cache : BOOLEAN]

\* What the collaborators may do during one request of the service; a
\* collaborator the plan does not call has no outcome.
ServiceEnvs(st) ==
    {e \in [llmOk : {TRUE},
            llm_output : {JsonPlan(TRUE, FALSE, FALSE), JsonPlan(TRUE, TRUE, FALSE)},
            rag : {Some(GoodHits), Some(StrongHits)},
            kag : {<<>>, GraphFound(3)},
            temporal : {<<>>},
            synth : {Some(AnswerText)},
            embedLookup : {TRUE},
            index_keys : Perms(RedisKeys(st, IndexPattern)),
            embedStore : {TRUE},
            kvLookup : {<<>>},
            kvStore : {<<>>},
            elapsed : ElapsedChoices] :
        e.llm_output.dict.use_kag = "false" => e.kag = <<>>}

\* The service answering one request after another.
Next ==
    /\ nops < MaxRequests
    /\ \E request \in Requests, env \in ServiceEnvs(store) : ProcessQuery(request, env)

Spec == Init /\ [][Next]_vars

\* One request against an empty cache, under every behaviour of the
\* collaborators.
PipelineRequests ==
    [query : {QA}, user_id : {None, "42"}, session_id : {None}, use_cache : BOOLEAN]

PipelineEnvs ==
    [llmOk : BOOLEAN,
     llm_output : {JsonPlan(r, k, t) : r, k, t \in BOOLEAN},
     rag : {<<>>, Some(GoodHits), Some(StrongHits)},
     kag : {<<>>, GraphFound(3), GraphFound(12)},
     temporal : {<<>>, Some(Events(2))},
     synth : {<<>>, Some(""), Some(AnswerText)},
     embedLookup : {TRUE},
     index_keys : {<<>>},
     embedStore : BOOLEAN,
     kvLookup : {<<>>},
     kvStore : {<<>>},
     elapsed : ElapsedChoices]

InitPipeline ==
    /\ store = <<>>
    /\ cache_ttl = CacheTtlTable(settings)
    /\ call = [pc |-> "idle"]
    /\ now = 0
    /\ nops = 0
    /\ \E request \in PipelineRequests, env \in PipelineEnvs :
          last = [op |-> "request", request |-> request, env |-> env]

ProcessPending ==
    /\ last.op = "request"
    /\ ProcessQuery(last.request, last.env)

NextPipeline == ProcessPending

SpecPipeline == InitPipeline /\ [][NextPipeline]_vars

\* The combiner's confidence over every combination of source signals.
MaxHits == 2

MaxRelationships == 11

MaxTimeline == 6

ScoreValues == {Zero, Frac(3, 4), One}

HitLists ==
    UNION {[1..n -> {Hit("chunk", s) : s \in ScoreValues}] : n \in 0..MaxHits}

ConfidenceInputs ==
    {rag @@ kag @@ temporal :
        rag \in {<<>>} \cup {[rag |-> search(QA, Some(h))] : h \in HitLists}
                       \cup {[rag |-> search(QA, <<>>)]},
        kag \in {<<>>} \cup {[kag |-> analyze_relationships(
                                          QA, Some([relationships |-> Relationships(n),
                                                    insights |-> <<>>])).ret] :
                                 n \in 0..MaxRelationships},
        temporal \in {<<>>} \cup {[temporal |-> temporal_search(QA, Some(Events(n)))] :
                                      n \in 0..MaxTimeline}}

InitConfidence ==
    /\ store = <<>>
    /\ cache_ttl = CacheTtlTable(settings)
    /\ call = [pc |-> "idle"]
    /\ now = 0
    /\ nops = 0
    /\ \E results \in ConfidenceInputs : last = [op |-> "results", results |-> results]

CalculateConfidence ==
    /\ last.op = "results"
    /\ last' = [op |-> "_calculate_confidence", results |-> last.results,
                ret |-> _calculate_confidence(last.results)]
    /\ nops' = nops + 1
    /\ UNCHANGED <<store, now, cache_ttl, call>>

NextConfidence == CalculateConfidence

SpecConfidence == InitConfidence /\ [][NextConfidence]_vars

\* ------------------------------------------------ the combiner on its own
MaxDocuments == 6

MaxGraphSources == 6

MaxEvents == 3

Documents(n) == [i \in 1..n |-> Hit("chunk " \o ToString(i), Frac(3, 4))]

\* What the retrieval calls may have returned: each of them absent, empty or
\* with entries.
CombinerOutputs ==
    {rag @@ kag @@ temporal :
        rag \in {<<>>} \cup {[rag |-> search(QA, Some(Documents(n)))] :
                                n \in 0..MaxDocuments},
        kag \in {<<>>} \cup {[kag |-> analyze_relationships(
                                          QA, Some([relationships |-> Relationships(n),
                                                    insights |-> <<"DataLive uses Neo4j">>])).ret] :
                                n \in 0..MaxGraphSources},
        temporal \in {<<>>} \cup {[temporal |-> temporal_search(QA, Some(Events(n)))] :
                                     n \in 0..MaxEvents}}

\* The dictionary only the first assignment went into.
FirstArrivalOnly(arrivals) ==
    IF arrivals = <<>> THEN <<>> ELSE (arrivals[1].key :> arrivals[1].output)

\* The results dictionary after results[key] = output was done for each of
\* arrivals in turn: a dictionary is read by key, whatever the order of the
\* assignments.
DictOf(arrivals) ==
    [k \in {arrivals[i].key : i \in 1..Len(arrivals)} |->
        arrivals[CHOOSE i \in 1..Len(arrivals) :
                    /\ arrivals[i].key = k
                    /\ \A j \in 1..Len(arrivals) : arrivals[j].key = k => j <= i].output]

InitCombiner ==
    /\ store = <<>>
    /\ cache_ttl = CacheTtlTable(settings)
    /\ call = [pc |-> "idle"]
    /\ now = 0
    /\ nops = 0
    /\ \E outputs \in CombinerOutputs :
          \E order \in Perms(DOMAIN outputs) :
             last = [op |-> "results",
                     arrivals |-> [i \in 1..Len(order) |->
                                      [key |-> order[i], output |-> outputs[order[i]]]]]

\* _combine_results(results, query, strategy)
CombineResults ==
    /\ last.op = "results"
    /\ last' = [op |-> "_combine_results", arrivals |-> last.arrivals,
                prompt |-> SynthesisPrompt(DictOf(last.arrivals), QA),
                ret |-> _combine_results(DictOf(last.arrivals), QA, ErrorStrategy,
                                         Some(AnswerText))]
    /\ nops' = nops + 1
    /\ UNCHANGED <<store, now, cache_ttl, call>>

NextCombiner == CombineResults

SpecCombiner == InitCombiner /\ [][NextCombiner]_vars

\* ------------------------------------------------ the probing of the keys
MaxProbeOps == 3

\* Records of one query stored for different callers with different TTLs and
\* looked up while some of them have gone stale.
NextProbe ==
    \/ /\ nops < MaxProbeOps
       /\ \E c \in CacheContexts, qt \in CacheQueryTypes :
             UpdateCache(QA, CacheResult, c, qt, TRUE)
    \/ /\ nops < MaxProbeOps
       /\ \E c \in CacheContexts, ks \in Perms(RedisKeys(store, IndexPattern)) :
             CheckCache(QA, c, TRUE, ks)
    \/ Tick
    \/ RedisExpire

SpecProbe == Init /\ [][NextProbe]_vars

\* ------------------------------------------- process_query, await by await
\* One call of process_query followed from one await to the next. call.pc is
\* the await the coroutine is suspended at: "cache_check" (_check_cache),
\* "planning" (analyze_query), "rag", "kag", "temporal" (the retrieval call in
\* flight), "combining" (generate_answer inside _combine_results),
\* "cache_write" (a SETEX of update_cache or of _store_semantic_cache); or how
\* it ended: "returned", "raised", "cancelled".
MaxCalls == 1

StrategyLabel(src) ==
    IF src = "rag" THEN "RAG" ELSE IF src = "kag" THEN "KAG" ELSE "KAG-Temporal"

\* The retrieval calls a strategy enables.
Enabled(strategy) ==
    (IF strategy.use_rag THEN {"rag"} ELSE {})
    \cup (IF strategy.use_kag THEN {"kag"} ELSE {})
    \cup (IF strategy.use_temporal THEN {"temporal"} ELSE {})

\* The combining begun as soon as one retrieval call has returned.
CombineAfterFirst(strategy, src) ==
    IF src = "plan"
    THEN IF strategy.use_rag THEN "rag"
         ELSE IF strategy.use_kag THEN "kag"
         ELSE IF strategy.use_temporal THEN "temporal"
         ELSE "combining"
    ELSE "combining"

\* The await process_query reaches next once the await src has returned
\* ("plan" is analyze_query): the if statements of step 3 in their order, then
\* _combine_results.
AfterSource(strategy, src) ==
    IF src = "plan" /\ strategy.use_rag THEN "rag"
    ELSE IF src \in {"plan", "rag"} /\ strategy.use_kag THEN "kag"
    ELSE IF src \in {"plan", "rag", "kag"} /\ strategy.use_temporal THEN "temporal"
    ELSE "combining"

\* The call c suspended at the await pc; a retrieval call is listed in
\* strategies_used and started on the way.
Start(c, pc) ==
    IF pc \in {"rag", "kag", "temporal"}
    THEN [c EXCEPT !.pc = pc, !.started = @ \cup {pc},
                   !.strategies_used = @ \o <<StrategyLabel(pc)>>]
    ELSE [c EXCEPT !.pc = pc]

InFlight == {"cache_check", "planning", "rag", "kag", "temporal", "combining", "cache_write"}

Ended == {"idle", "returned", "raised", "cancelled"}

\* process_query is entered with request; env is what the collaborators will
\* do during the call.
Accept(request, env) ==
    /\ call.pc \in Ended
    /\ call' = [pc |-> IF request.use_cache THEN "cache_check" ELSE "planning",
                request |-> request, env |-> env, before |-> store,
                strategy |-> <<>>, strategies_used |-> <<>>,
                started |-> {}, completed |-> {}, results |-> <<>>,
                response |-> <<>>, delivered |-> FALSE,
                pending |-> <<>>, cache_data |-> <<>>]
    /\ nops' = nops + 1
    /\ UNCHANGED <<store, now, last, cache_ttl>>

\* process_query is called.
Receive(request, env) ==
    /\ nops < MaxCalls
    /\ Accept(request, env)

\* Step 1 ends with r: a raise, the cached response returned, or step 2.
CacheCheckedAs(r) ==
    /\ store' = r.st
    /\ call' = IF r.raised THEN [call EXCEPT !.pc = "raised"]
               ELSE IF r.ret # <<>>
               THEN [call EXCEPT !.pc = "returned", !.response = r.ret,
                                 !.delivered = TRUE]
               ELSE [call EXCEPT !.pc = "planning"]
    /\ UNCHANGED <<now, last, nops, cache_ttl>>

\* await self._check_cache(request) returns.
CacheChecked ==
    /\ call.pc = "cache_check"
    /\ CacheCheckedAs(_check_cache(store, call.request, call.env.embedLookup,
                                   call.env.index_keys, now, call.env.kvLookup))

\* await self.orchestrator.analyze_query(...) returns plan.
PlannedAs(plan) ==
    /\ call' = IF plan.raised THEN [call EXCEPT !.pc = "raised"]
               ELSE Start([call EXCEPT !.strategy = Some(plan.ret)],
                          AfterSource(plan.ret, "plan"))
    /\ UNCHANGED <<store, now, last, nops, cache_ttl>>

PlanDone ==
    /\ call.pc = "planning"
    /\ PlannedAs(analyze_query(call.request.query, call.env.llmOk, call.env.llm_output))

\* The retrieval call src returns result.
SourceReturned(src, result) ==
    /\ call' = Start([call EXCEPT !.completed = @ \cup {src},
                                  !.results = @ @@ (src :> result)],
                     AfterSource(call.strategy[1], src))
    /\ UNCHANGED <<store, now, last, nops, cache_ttl>>

\* await self.rag_agent.search(...) returns.
RagDone ==
    /\ call.pc = "rag"
    /\ SourceReturned("rag", search(call.request.query, call.env.rag))

\* await self.kag_agent.analyze_relationships(...) returns or raises.
KagDoneAs(kag) ==
    IF kag.raised
    THEN /\ call' = [call EXCEPT !.pc = "raised"]
         /\ UNCHANGED <<store, now, last, nops, cache_ttl>>
    ELSE SourceReturned("kag", kag.ret)

KagDone ==
    /\ call.pc = "kag"
    /\ KagDoneAs(analyze_relationships(call.request.query, call.env.kag))

\* await self.kag_agent.temporal_search(...) returns.
TemporalDone ==
    /\ call.pc = "temporal"
    /\ SourceReturned("temporal", temporal_search(call.request.query, call.env.temporal))

\* generate_answer has returned and steps 4 and 5 made response of it: with
\* use_cache update_cache is entered and suspended at its first SETEX, without
\* it the response is returned.
AnsweredAs(response) ==
    /\ call' = IF call.request.use_cache
               THEN [call EXCEPT
                       !.pc = "cache_write",
                       !.response = Some(response),
                       !.pending = _generate_cache_keys(call.request.query,
                                                        RequestContext(call.request)),
                       !.cache_data =
                           Some(CacheData(call.request.query, CacheResultOf(response),
                                          RequestContext(call.request),
                                          _determine_query_type(response.strategy_used),
                                          now))]
               ELSE [call EXCEPT !.pc = "returned", !.response = Some(response),
                                 !.delivered = TRUE]
    /\ UNCHANGED <<store, now, last, nops, cache_ttl>>

\* await self.orchestrator.generate_answer(...) inside _combine_results returns.
Answered ==
    /\ call.pc = "combining"
    /\ AnsweredAs(BuildResponse(_combine_results(call.results, call.request.query,
                                                 call.strategy[1], call.env.synth),
                                call.results, call.strategy[1], call.strategies_used,
                                now, now))

\* A loop that would leave a key alone once another call has written it.
WriteKeyIfAbsent ==
    /\ call.pc = "cache_write"
    /\ call.pending # <<>>
    /\ store' = IF Head(call.pending) \in DOMAIN store
                 THEN store
                 ELSE RedisSetex(store, Head(call.pending), call.cache_data[1].ttl,
                                 call.cache_data[1], now)
    /\ call' = [call EXCEPT !.pending = Tail(@)]
    /\ UNCHANGED <<now, last, nops, cache_ttl>>

\* One SETEX of the loop of update_cache returns.
WriteKey ==
    /\ call.pc = "cache_write"
    /\ call.pending # <<>>
    /\ store' = RedisSetex(store, Head(call.pending), call.cache_data[1].ttl,
                           call.cache_data[1], now)
    /\ call' = [call EXCEPT !.pending = Tail(@)]
    /\ UNCHANGED <<now, last, nops, cache_ttl>>

\* _store_semantic_cache returns, then update_cache and _update_cache, and
\* process_query returns the response.
StoreSemantic ==
    /\ call.pc = "cache_write"
    /\ call.pending = <<>>
    /\ store' = _store_semantic_cache(store, call.request.query, call.cache_data[1],
                                      call.env.embedStore, now, <<>>)
    /\ call' = [call EXCEPT !.pc = "returned", !.delivered = TRUE]
    /\ UNCHANGED <<now, last, nops, cache_ttl>>

\* The caller cancels the task: CancelledError is thrown into the await the
\* coroutine is suspended at. It is no Exception, so neither the except clauses
\* of the cache nor the one of process_query catch it.
Cancel ==
    /\ call.pc \in InFlight
    /\ call' = [call EXCEPT !.pc = "cancelled"]
    /\ UNCHANGED <<store, now, last, nops, cache_ttl>>

StepRequests ==
    [query : {QA}, user_id : {None, "42"}, session_id : {None}, use_cache : BOOLEAN]

StepEnvs(st) ==
    [llmOk : {TRUE},
     llm_output : {JsonPlan(TRUE, FALSE, FALSE), JsonPlan(TRUE, TRUE, FALSE),
                   JsonPlan(FALSE, TRUE, TRUE), JsonPlan(TRUE, TRUE, TRUE)},
     rag : {<<>>, Some(GoodHits)},
     kag : {<<>>, GraphFound(3)},
     temporal : {<<>>, Some(Events(2))},
     synth : {Some(AnswerText)},
     embedLookup : {TRUE},
     index_keys : Perms(RedisKeys(st, IndexPattern)),
     embedStore : {TRUE},
     kvLookup : {<<>>},
     kvStore : {<<>>},
     elapsed : {0}]

NextSteps ==
    \/ \E request \in StepRequests, env \in StepEnvs(store) : Receive(request, env)
    \/ CacheChecked
    \/ PlanDone
    \/ RagDone
    \/ KagDone
    \/ TemporalDone
    \/ Answered
    \/ WriteKey
    \/ StoreSemantic
    \/ Cancel

SpecSteps == Init /\ [][NextSteps]_vars

\* ------------------------------------------------ two calls of process_query
\* Two calls of process_query on one event loop. call is the coroutine that
\* runs; the other one, suspended at its await, is kept in last.
MaxConcurrentCalls == 2

ConcurrentRequests ==
    [query : {QA}, user_id : {None}, session_id : {None}, use_cache : {TRUE}]

ConcurrentEnvs(st) ==
    [llmOk : {TRUE},
     llm_output : {JsonPlan(TRUE, FALSE, FALSE), JsonPlan(TRUE, TRUE, FALSE)},
     rag : {Some(GoodHits)},
     kag : {GraphFound(3)},
     temporal : {<<>>},
     synth : {Some(AnswerText)},
     embedLookup : {TRUE},
     index_keys : Perms(RedisKeys(st, IndexPattern)),
     embedStore : {TRUE},
     kvLookup : {<<>>},
     kvStore : {<<>>},
     elapsed : {0}]

ReceiveConcurrent(request, env) ==
    /\ nops < MaxConcurrentCalls
    /\ Accept(request, env)

\* The coroutine that runs is suspended at its await (or has ended) and the
\* event loop runs the other task: the suspended call, or none yet.
Switch ==
    /\ call.pc # "idle"
    /\ call' = IF last.op = "suspended" THEN last.call ELSE [pc |-> "idle"]
    /\ last' = [op |-> "suspended", call |-> call]
    /\ UNCHANGED <<store, now, nops, cache_ttl>>

NextConcurrent ==
    \/ \E request \in ConcurrentRequests, env \in ConcurrentEnvs(store) :
          ReceiveConcurrent(request, env)
    \/ CacheChecked
    \/ PlanDone
    \/ RagDone
    \/ KagDone
    \/ Answered
    \/ WriteKey
    \/ StoreSemantic
    \/ Switch

SpecConcurrent == Init /\ [][NextConcurrent]_vars

\* ------------------------------------- a lookup running beside the stores
\* check_cache taken one await at a time, while update_cache calls of other
\* requests reach the store between its awaits. call is the lookup.
MaxRaceOps == 3

\* check_cache is called: the keys are generated and the loop begins.
LookupBegin(query, user_context) ==
    /\ call.pc \in Ended
    /\ call' = [pc |-> "get", query |-> query, user_context |-> user_context,
                pending |-> _generate_cache_keys(query, user_context),
                read |-> <<>>, ret |-> <<>>]
    /\ nops' = nops + 1
    /\ UNCHANGED <<store, now, last, cache_ttl>>

\* await self.redis_client.get(cache_key) returns: nothing, a fresh record
\* (returned), or a stale one (the delete is awaited next).
LookupGet ==
    /\ call.pc = "get"
    /\ call.pending # <<>>
    /\ LET key == Head(call.pending)
           cached_data == RedisGet(store, key)
       IN call' = IF cached_data = <<>>
                  THEN [call EXCEPT !.pending = Tail(@)]
                  ELSE IF _is_fresh(cached_data[1], now)
                  THEN [call EXCEPT !.pc = "returned",
                                    !.ret = Some([cache_key |-> key] @@ cached_data[1])]
                  ELSE [call EXCEPT !.pc = "delete", !.read = cached_data]
    /\ UNCHANGED <<store, now, last, nops, cache_ttl>>

\* await self.redis_client.delete(cache_key) returns.
LookupDelete ==
    /\ call.pc = "delete"
    /\ store' = RedisDelete(store, {Head(call.pending)})
    /\ call' = [call EXCEPT !.pc = "get", !.pending = Tail(@)]
    /\ UNCHANGED <<now, last, nops, cache_ttl>>

\* No key gave a fresh record: _find_similar_cached_query, and check_cache
\* returns what it found.
LookupFallback(index_keys) ==
    /\ call.pc = "get"
    /\ call.pending = <<>>
    /\ call' = [call EXCEPT
                  !.pc = "returned",
                  !.ret = _find_similar_cached_query(store, call.query, TRUE,
                                                     index_keys, <<>>)]
    /\ UNCHANGED <<store, now, last, nops, cache_ttl>>

NextRace ==
    \/ /\ nops < MaxRaceOps
       /\ \E c \in CacheContexts, qt \in CacheQueryTypes :
             UpdateCache(QA, CacheResult, c, qt, TRUE)
    \/ /\ nops < MaxRaceOps
       /\ \E c \in CacheContexts : LookupBegin(QA, c)
    \/ LookupGet
    \/ LookupDelete
    \/ \E ks \in Perms(RedisKeys(store, IndexPattern)) : LookupFallback(ks)
    \/ Tick
    \/ RedisExpire

SpecRace == Init /\ [][NextRace]_vars

\* --------------------------------------------- one query, several users
MaxUserOps == 3

\* Callers with two different user ids, and one with none.
UserContexts ==
    {[user_id |-> "42", session_id |-> None],
     [user_id |-> "7", session_id |-> None],
     NoContext}

\* Requests of different users store and look up the same query text.
NextUsers ==
    \/ /\ nops < MaxUserOps
       /\ \E c \in UserContexts, qt \in CacheQueryTypes :
             UpdateCache(QA, CacheResult, c, qt, TRUE)
    \/ /\ nops < MaxUserOps
       /\ \E c \in UserContexts, ks \in Perms(RedisKeys(store, IndexPattern)) :
             CheckCache(QA, c, TRUE, ks)
    \/ Tick
    \/ RedisExpire

SpecUsers == Init /\ [][NextUsers]_vars

\* ------------------------------------------------ the store failing under the service
MaxOutageRequests == 2

OutageRequests == [query : {QA}, user_id : {None}, session_id : {None}, use_cache : BOOLEAN]

\* The collaborators answer; the key-value store may fail during lookup after
\* 0, 1 or 3 calls and during store after 1 or 3 calls.
OutageEnvs(st) ==
    [llmOk : {TRUE},
     llm_output : {JsonPlan(TRUE, FALSE, FALSE), JsonPlan(TRUE, FALSE, TRUE)},
     rag : {Some(GoodHits)},
     kag : {<<>>},
     temporal : {Some(Events(2))},
     synth : {Some(AnswerText)},
     embedLookup : {TRUE},
     index_keys : Perms(RedisKeys(st, IndexPattern)),
     embedStore : {TRUE},
     kvLookup : {<<>>, <<0>>, <<1>>, <<3>>},
     kvStore : {<<>>, <<1>>, <<3>>},
     elapsed : {0}]

\* The service answering requests while the key-value store has outages; a
\* request that does not use the cache meets none.
NextOutage ==
    \/ /\ nops < MaxOutageRequests
       /\ \E request \in OutageRequests, env \in OutageEnvs(store) :
             /\ ~request.use_cache => (env.kvLookup = <<>> /\ env.kvStore = <<>>)
             /\ ProcessQuery(request, env)
    \/ Tick

SpecOutage == Init /\ [][NextOutage]_vars

\* ------------------------------------------------------ claims on the cache
\* The candidate keys of the last operation's query.
LastKeys == _generate_cache_keys(last.query, last.user_context)

\* The record a store entry holds: the cache_data of a cache key, or the copy of
\* it kept in an entry of the embedding index.
RecordOf(value) == IF "cache_data" \in DOMAIN value THEN value.cache_data ELSE value

\* C2: after update_cache(query, result, user_context, query_type) has run, the
\* exact key, the normalized key and (when a user id is present) the user-scoped
\* key of the query all hold the same content, the record of this result.
C2_StoredReadsAgree ==
    last.op = "update_cache" =>
        LET h == _hash_text(last.query)
            uid == last.user_context.user_id
            exact == RedisGet(store, "exact:" \o h)
            normalized == RedisGet(store, "normalized:" \o _hash_text(lower_strip(last.query)))
            user == RedisGet(store, "user:" \o uid \o ":" \o h)
        IN /\ exact # <<>>
           /\ exact[1].query = last.query
           /\ exact[1].result = last.result
           /\ normalized = exact
           /\ Truthy(uid) => user = exact

\* C2 witness: a store for a user has completed and its three keys are present.
C2_Witness ==
    /\ last.op = "update_cache"
    /\ Truthy(last.user_context.user_id)
    /\ {"exact:" \o _hash_text(last.query),
        "normalized:" \o _hash_text(lower_strip(last.query)),
        "user:" \o last.user_context.user_id \o ":" \o _hash_text(last.query)}
           \subseteq DOMAIN store

\* The record of the looked-up query and context with ttl = 1, at least two
\* seconds old at the time of the lookup.
C3_IsExpiredRecord(r) ==
    /\ r.query = last.query
    /\ r.user_context = last.user_context
    /\ r.ttl = 1
    /\ last.at - r.cached_at >= 2

\* C3: a record stored with ttl = 1 and looked up (same query and context) two
\* seconds later is reported as a miss, and after the lookup no entry of the
\* store holds the record any more.
C3_ExpiredIsMissAndRemoved ==
    last.op = "check_cache" =>
        /\ \A i \in 1..Len(last.ret) : ~C3_IsExpiredRecord(last.ret[i])
        /\ \A k \in DOMAIN store : ~C3_IsExpiredRecord(RecordOf(store[k].val))

\* No candidate key of the looked-up query is left in the store: the probing
\* loop returned nothing and the lookup went on to the similarity search.
C4_NoCandidateKey == \A i \in 1..Len(LastKeys) : LastKeys[i] \notin DOMAIN store

C4_Threshold == [d |-> 17, m |-> 20 * 20]

\* The similarity of the looked-up query's embedding with an index entry's.
C4_Similarity(k) ==
    _cosine_similarity(embed_text(last.query, last.embedOk), store[k].val.embedding)

\* What the similarity search returns for index entry k.
C4_Resolved(k) ==
    Some([similarity_score |-> C4_Similarity(k), original_query |-> store[k].val.query]
         @@ store[k].val.cache_data)

\* C4 as stated: with no candidate key matching, every indexed record whose
\* similarity with the query is >= 0.85 (0.85 included) is what the lookup
\* resolves to, and without such a record the lookup returns none.
C4_AtLeastThresholdMatches ==
    (last.op = "check_cache" /\ C4_NoCandidateKey) =>
        LET atLeast == {k \in RedisKeys(store, IndexPattern) :
                            ~SimGreater(C4_Threshold, C4_Similarity(k))}
        IN /\ \A k \in atLeast : last.ret = C4_Resolved(k)
           /\ atLeast = {} => last.ret = <<>>

\* C4 amended: with no candidate key matching and at most 50 index entries, the
\* lookup returns the indexed record of highest similarity if that similarity is
\* strictly greater than 0.85, and none if no entry is strictly above 0.85.
C4_AboveThresholdBestMatches ==
    (/\ last.op = "check_cache"
     /\ C4_NoCandidateKey
     /\ Cardinality(RedisKeys(store, IndexPattern)) <= ScanLimit) =>
        LET above == {k \in RedisKeys(store, IndexPattern) :
                          SimGreater(C4_Similarity(k), C4_Threshold)}
        IN IF above = {}
           THEN last.ret = <<>>
           ELSE \E k \in above :
                    /\ \A j \in above : ~SimGreater(C4_Similarity(j), C4_Similarity(k))
                    /\ last.ret = C4_Resolved(k)

\* C4 witness: a lookup with no candidate key resolved, by similarity, to the
\* record of another query.
C4_Witness ==
    /\ last.op = "check_cache"
    /\ C4_NoCandidateKey
    /\ last.ret # <<>>
    /\ last.ret[1].original_query # last.query

\* The keys scoped to user 42.
C7_User42Keys == {"user:42:" \o _hash_text(q) : q \in Queries}

\* C7: invalidate("user:42:*") removes exactly the keys scoped to user 42 and
\* leaves every other key (exact, normalized, semantic, session-scoped, other
\* users') in the store with its content.
C7_InvalidateUser42Only ==
    (last.op = "invalidate_cache_pattern" /\ last.pattern = "user:42:*") =>
        /\ DOMAIN store = DOMAIN last.before \ C7_User42Keys
        /\ \A k \in DOMAIN store : store[k] = last.before[k]

\* The number of keys the last invalidation removed.
C8_Removed == Cardinality(DOMAIN last.before \ DOMAIN store)

C9_PlanningFails ==
    \/ ~last.llmOk
    \/ last.output.kind \in {"broken_json", "not_a_string"}
    \/ /\ last.output.kind = "json"
       /\ \E name \in DOMAIN last.output.dict \cap {"use_rag", "use_kag", "use_temporal"} :
             last.output.dict[name] \notin {"true", "false"}

C9_FallbackNotes ==
    {"Default strategy due to analysis error", "Parse error - using default RAG strategy"}

\* C9: analyze never raises; when the collaborator call fails or its output
\* cannot be parsed into a QueryStrategy it returns the default strategy:
\* use_rag true, use_kag and use_temporal false, reasoning a fallback note.
C9_NeverRaisesDefaultOnFailure ==
    last.op = "analyze_query" =>
        /\ ~last.raised
        /\ last.ret # <<>>
        /\ C9_PlanningFails =>
              /\ last.ret[1].use_rag
              /\ ~last.ret[1].use_kag
              /\ ~last.ret[1].use_temporal
              /\ last.ret[1].reasoning \in C9_FallbackNotes

\* C9 witness: the planner answered a failed collaborator call.
C9_Witness == last.op = "analyze_query" /\ ~last.llmOk /\ last.ret # <<>>

\* C10: every strategy analyze returns has at least one of use_rag, use_kag,
\* use_temporal true.
C10_SomeSourceEnabled ==
    (last.op = "analyze_query" /\ last.ret # <<>>) =>
        \/ last.ret[1].use_rag
        \/ last.ret[1].use_kag
        \/ last.ret[1].use_temporal

\* ------------------------------------------------- claims on the combiner
C6_NoSignal(results) ==
    /\ "kag" \notin DOMAIN results
    /\ "temporal" \notin DOMAIN results
    /\ "rag" \in DOMAIN results => results.rag.results = <<>>

\* C6: the aggregate confidence is within [0,1] for every combination of
\* enabled sources and source signals (scores in [0,1], any relationship
\* count, any timeline count), and it is 0.5 when no source produced a signal.
C6_ConfidenceInUnitInterval ==
    last.op = "_calculate_confidence" =>
        /\ FracLeq(Zero, last.ret)
        /\ FracLeq(last.ret, One)
        /\ C6_NoSignal(last.results) => last.ret = Half

\* C6 witness: more than ten relationships were found and nothing else, and the
\* confidence came out as exactly 1.
C6_Witness ==
    /\ last.op = "_calculate_confidence"
    /\ DOMAIN last.results = {"kag"}
    /\ Len(last.results.kag.relationships) > RelationshipNorm
    /\ last.ret = One

\* --------------------------------------------- claims on request handling
\* C1: a use_cache request answered by the full pipeline against an empty
\* cache, repeated identically straight away, returns cached = TRUE, the same
\* answer and processing time 0, without raising.
C1_RepeatIsCacheHit ==
    [][(/\ nops = 1
        /\ last.op = "process_query"
        /\ last.request.use_cache
        /\ ~last.raised
        /\ ~last.ret[1].cached
        /\ last'.op = "process_query"
        /\ nops' = 2
        /\ last'.request = last.request)
       => (/\ ~last'.raised
           /\ last'.ret[1].cached
           /\ last'.ret[1].answer = last.ret[1].answer
           /\ last'.ret[1].processing_time = 0)]_vars

\* The plan enables semantic and graph search, graph search fails and semantic
\* search succeeds.
C5_GraphFailsSemanticSucceeds ==
    /\ last.op = "process_query"
    /\ last.strategy # <<>>
    /\ last.strategy[1].use_rag
    /\ last.strategy[1].use_kag
    /\ last.env.kag = <<>>
    /\ last.env.rag # <<>>

\* C5 as stated: in that case the response's strategy_used is exactly <<"RAG">>
\* and its answer is non-empty.
C5_OnlyRagListed ==
    C5_GraphFailsSemanticSucceeds =>
        /\ ~last.raised
        /\ last.ret[1].strategy_used = <<"RAG">>
        /\ last.ret[1].answer # ""

\* C5 amended: in that case process_query still returns a response; its
\* strategy_used lists "RAG" and then "KAG" (and then "KAG-Temporal" when the
\* plan enables temporal search too), the semantic hits are among its sources,
\* and its answer is the text answer synthesis returned: the completion's text,
\* or the apology when the completion call fails.
C5_FailedGraphStaysListed ==
    C5_GraphFailsSemanticSucceeds =>
        /\ ~last.raised
        /\ last.ret # <<>>
        /\ last.ret[1].strategy_used =
              <<"RAG", "KAG">>
              \o (IF last.strategy[1].use_temporal THEN <<"KAG-Temporal">> ELSE <<>>)
        /\ Len(last.ret[1].sources) >= Len(last.env.rag[1])
        /\ last.ret[1].answer =
              IF last.env.synth = <<>> THEN ApologyText ELSE last.env.synth[1]

\* C5 witness: such a request was answered with "RAG" and "KAG" listed.
C5_Witness ==
    /\ C5_GraphFailsSemanticSucceeds
    /\ ~last.raised
    /\ last.ret[1].strategy_used = <<"RAG", "KAG">>
    /\ last.ret[1].answer = AnswerText

\* What lookup finds for the request answered in the step to last', judged in
\* the store as it was before that step.
C11_Found ==
    check_cache(store, last'.request.query, RequestContext(last'.request),
                last'.env.embedLookup, last'.env.index_keys, now, last'.env.kvLookup).ret

\* C11: with use_cache, process_query returns a cached response (cached = TRUE,
\* processing time 0) exactly when lookup finds a fresh record whose stored
\* confidence is above 0.9, and on such a hit neither the planner nor a
\* retrieval nor answer synthesis runs.
C11_CachedIffConfidentRecord ==
    [][(last'.op = "process_query" /\ last'.request.use_cache)
       => /\ (C11_Found # <<>> /\ FracLess(CacheConfidenceFloor, C11_Found[1].confidence))
             <=> (/\ ~last'.raised
                  /\ last'.ret[1].cached
                  /\ last'.ret[1].processing_time = 0)
          /\ (~last'.raised /\ last'.ret[1].cached)
             => (last'.strategy = <<>> /\ last'.strategies_used = <<>>)]_vars

\* The plan enables at least one retrieval and every retrieval it enables fails.
C12_AllEnabledFail ==
    /\ last.op = "process_query"
    /\ last.strategy # <<>>
    /\ last.strategy[1].use_rag \/ last.strategy[1].use_kag \/ last.strategy[1].use_temporal
    /\ last.strategy[1].use_rag => last.env.rag = <<>>
    /\ last.strategy[1].use_kag => last.env.kag = <<>>
    /\ last.strategy[1].use_temporal => last.env.temporal = <<>>

\* C12: when every enabled retrieval fails, whatever the set of enabled
\* retrievals, process_query still returns a response, built from no source,
\* whose confidence is the default 0.5.
C12_TotalFailureGivesDefault ==
    C12_AllEnabledFail =>
        /\ ~last.raised
        /\ last.ret[1].sources = <<>>
        /\ last.ret[1].confidence = Half

\* ------------------------------------------------ claims on the TTL table
\* The records stored under candidate keys (the entries of the embedding index
\* carry no TTL field of their own).
C15_RecordKeys(st) == {k \in DOMAIN st : "cached_at" \in DOMAIN st[k].val}

\* C15: a record's freshness is decided by the ttl written into it at store
\* time. A change of the TTL table changes no stored record and no outcome of
\* a freshness check on one; a store writes the table's TTL of that moment
\* into the record; and a lookup keeps or deletes a record by the record's own
\* ttl.
C15_TtlFixedAtWrite ==
    [][/\ cache_ttl' # cache_ttl =>
             /\ store' = store
             /\ \A k \in C15_RecordKeys(store) :
                   _is_fresh(store[k].val, now)' = _is_fresh(store[k].val, now)
       /\ (nops' # nops /\ last'.op = "update_cache") =>
             \A i \in 1..Len(_generate_cache_keys(last'.query, last'.user_context)) :
                store'[_generate_cache_keys(last'.query, last'.user_context)[i]].val.ttl
                    = cache_ttl[last'.query_type]
       /\ (nops' # nops /\ last'.op = "check_cache") =>
             /\ \A k \in C15_RecordKeys(store) \ DOMAIN store' :
                   ~(now - store[k].val.cached_at < store[k].val.ttl)
             /\ (last'.ret # <<>> /\ "cache_key" \in DOMAIN last'.ret[1]) =>
                   now - last'.ret[1].cached_at < last'.ret[1].ttl]_vars

\* C15 witness: after a change of the table, a lookup returned a record that
\* the table now in force would call stale.
C15_Witness ==
    /\ last.op = "check_cache"
    /\ last.ret # <<>>
    /\ "cache_key" \in DOMAIN last.ret[1]
    /\ cache_ttl # CacheTtlTable(settings)
    /\ ~IsFreshByTable(last.ret[1], now)

\* ------------------------------------- claims on failures of the store
\* What lookup did in the step that ends in the primed state.
C14_Lookup ==
    check_cache(store, last'.request.query, RequestContext(last'.request),
                last'.env.embedLookup, last'.env.index_keys, now, last'.env.kvLookup)

\* The lookup of the step gave process_query no response to return.
C14_NoCachedResponse ==
    C14_Lookup.ret = <<>> \/ ~FracLess(CacheConfidenceFloor, C14_Lookup.ret[1].confidence)

\* The store fails during the update_cache of the step.
C14_StoreFails ==
    ~KvAllows(last'.env.kvStore,
              Len(_generate_cache_keys(last'.request.query,
                                       RequestContext(last'.request))) + 1)

\* process_query ran its pipeline and returned an uncached response.
C14_UncachedResponse ==
    /\ ~last'.raised
    /\ last'.ret # <<>>
    /\ ~last'.ret[1].cached
    /\ last'.strategy # <<>>
    /\ last'.strategies_used # <<>>

\* C14: a failure of the key-value store during lookup or store never leaves
\* the cache: lookup returns None, store returns, and process_query runs the
\* whole pipeline and returns a response with cached = FALSE.
C14_StoreFailureContained ==
    [][(nops' # nops /\ last'.op = "process_query" /\ last'.request.use_cache) =>
          /\ ~C14_Lookup.raised
          /\ C14_Lookup.kv_failed => (C14_Lookup.ret = <<>> /\ C14_UncachedResponse)
          /\ (C14_NoCachedResponse /\ C14_StoreFails) => C14_UncachedResponse]_vars

\* A request during which the first call of lookup failed and the second SETEX
\* of store failed: it returned uncached and left the exact key alone written.
C14_Witness ==
    /\ last.op = "process_query"
    /\ last.request.use_cache
    /\ last.env.kvLookup = <<0>>
    /\ last.env.kvStore = <<1>>
    /\ ~last.raised
    /\ ~last.ret[1].cached
    /\ LET keys == _generate_cache_keys(last.request.query, RequestContext(last.request))
       IN keys[1] \in DOMAIN store /\ keys[2] \notin DOMAIN store

\* ------------------------------------- claims on the course of a request
\* The keys the record of the call is written under.
CallKeys == _generate_cache_keys(call.request.query, RequestContext(call.request))

\* C13: after a request was cancelled, the store holds no key of the request's
\* record that it did not hold before the request.
C13_CancelledLeavesNoEntry ==
    call.pc = "cancelled" =>
        \A i \in 1..Len(CallKeys) :
            CallKeys[i] \in DOMAIN store => CallKeys[i] \in DOMAIN call.before

\* C16: the enabled retrieval calls run concurrently: when one of them
\* completes, every enabled call has been started already.
C16_StartedBeforeAnyCompletes ==
    [][(call.pc \in {"rag", "kag", "temporal"} /\ call'.pc # "cancelled"
        /\ call'.completed # call.completed) =>
          Enabled(call.strategy[1]) \subseteq call.started]_vars

\* C17: the cache write does not gate the response: while update_cache is
\* under way the caller has the response already.
C17_ResponseBeforeCacheWrite ==
    call.pc = "cache_write" => call.delivered

\* C18: combining starts only after every retrieval call the strategy enables
\* has completed or failed: from _combine_results on, the results are those of
\* all the enabled calls and none of them is pending.
C18_CombinesAfterAllRetrievals ==
    (call.pc \in {"combining", "cache_write"}
     \/ (call.pc = "returned" /\ call.strategy # <<>>)) =>
        /\ call.completed = Enabled(call.strategy[1])
        /\ call.started = call.completed
        /\ DOMAIN call.results = Enabled(call.strategy[1])

\* The answer is being synthesized for a strategy of three sources, one of
\* which failed.
C18_Witness ==
    /\ call.pc = "combining"
    /\ Cardinality(Enabled(call.strategy[1])) = 3
    /\ "error" \in DOMAIN call.results["kag"]
    /\ "error" \notin DOMAIN call.results["rag"]

\* ---------------------------------------------- claims on the probing order
\* The place of a key in the order exact, normalized, user, session, semantic.
C19_Rank(key) ==
    IF GlobMatch("exact:*", key) THEN 1
    ELSE IF GlobMatch("normalized:*", key) THEN 2
    ELSE IF GlobMatch("user:*", key) THEN 3
    ELSE IF GlobMatch("session:*", key) THEN 4
    ELSE IF GlobMatch("semantic:*", key) THEN 5
    ELSE 6

\* The candidate keys of the lookup that ends in the primed state.
C19_Keys == _generate_cache_keys(last'.query, last'.user_context)

\* The places of the candidate keys that hold a fresh record before the lookup.
C19_Fresh ==
    {i \in 1..Len(C19_Keys) :
        C19_Keys[i] \in DOMAIN store /\ _is_fresh(store[C19_Keys[i]].val, now)}

C19_FirstFresh == CHOOSE j \in C19_Fresh : \A i \in C19_Fresh : j <= i

\* C19: check_cache probes the keys in the order exact, normalized, user,
\* session, semantic hash; it returns the record of the first key that holds a
\* fresh one, tagged with that key, and has deleted the stale keys before it;
\* when no key holds a fresh record every stale candidate key is deleted.
C19_FirstFreshKeyWins ==
    [][(nops' # nops /\ last'.op = "check_cache") =>
          /\ \A i, j \in 1..Len(C19_Keys) :
                i < j => C19_Rank(C19_Keys[i]) < C19_Rank(C19_Keys[j])
          /\ \A i \in 1..Len(C19_Keys) : C19_Rank(C19_Keys[i]) <= 5
          /\ IF C19_Fresh # {}
             THEN /\ last'.ret = Some([cache_key |-> C19_Keys[C19_FirstFresh]]
                                      @@ store[C19_Keys[C19_FirstFresh]].val)
                  /\ store' = RedisDelete(store,
                                          {C19_Keys[i] : i \in 1..(C19_FirstFresh - 1)})
             ELSE store' = RedisDelete(store, {C19_Keys[i] : i \in 1..Len(C19_Keys)})]_vars

\* A lookup for user 42 returned the record under the user key, which is not
\* the one the session key holds, after the stale exact and normalized keys were
\* deleted; the semantic key, behind the match, still holds its stale record.
C19_Witness ==
    /\ last.op = "check_cache"
    /\ last.ret # <<>>
    /\ "cache_key" \in DOMAIN last.ret[1]
    /\ LET keys == _generate_cache_keys(last.query, last.user_context) IN
       /\ Len(keys) = 5
       /\ last.ret[1].cache_key = keys[3]
       /\ keys[1] \notin DOMAIN store
       /\ keys[2] \notin DOMAIN store
       /\ keys[4] \in DOMAIN store
       /\ keys[5] \in DOMAIN store
       /\ ~_is_fresh(store[keys[5]].val, now)

\* ------------------------------------------------ claims on the cache write
\* The candidate keys of the store that ends in the primed state.
C20_Keys == _generate_cache_keys(last'.query, last'.user_context)

\* The record that store writes.
C20_Record ==
    [query |-> last'.query, result |-> last'.result,
     user_context |-> last'.user_context, query_type |-> last'.query_type,
     cached_at |-> now, confidence |-> ResultConfidence(last'.result),
     ttl |-> cache_ttl[last'.query_type]]

\* What a lookup for (query, user_context) returns from the store st.
C20_Lookup(st) ==
    check_cache(st, last'.query, last'.user_context, TRUE, <<>>, now, <<>>).ret

\* C20: update_cache writes one and the same record, with the TTL the table
\* has for the query type, under every key that check_cache probes for the
\* same query and context: a lookup finds the record under each of them, and
\* no other cache key is touched. In the table factual >= analytical >=
\* temporal >= personal.
C20_OneRecordUnderLookupKeys ==
    [][(nops' # nops /\ last'.op = "update_cache") =>
          /\ \A i \in 1..Len(C20_Keys) :
                /\ C20_Keys[i] \in DOMAIN store'
                /\ store'[C20_Keys[i]] =
                       [val |-> C20_Record, exp |-> now + cache_ttl[last'.query_type]]
                /\ C20_Lookup([k \in {C20_Keys[i]} |-> store'[k]]) =
                       Some([cache_key |-> C20_Keys[i]] @@ C20_Record)
          /\ \A k \in DOMAIN store' \ {C20_Keys[i] : i \in 1..Len(C20_Keys)} :
                \/ k = "semantic_embeddings:" \o _hash_text(last'.query)
                \/ k \in DOMAIN store /\ store'[k] = store[k]
          /\ cache_ttl["factual"] >= cache_ttl["analytical"]
          /\ cache_ttl["analytical"] >= cache_ttl["temporal"]
          /\ cache_ttl["temporal"] >= cache_ttl["personal"]]_vars

\* A personal result stored for a user and a session: the five keys hold one
\* record with the TTL of personal, which is shorter than the one of factual.
C20_Witness ==
    /\ last.op = "update_cache"
    /\ last.query_type = "personal"
    /\ last.at = now
    /\ Len(LastKeys) = 5
    /\ \A i \in 1..5 :
          /\ LastKeys[i] \in DOMAIN store
          /\ store[LastKeys[i]] = store[LastKeys[1]]
    /\ store[LastKeys[1]].val.ttl = cache_ttl["personal"]
    /\ store[LastKeys[1]].exp = now + cache_ttl["personal"]
    /\ cache_ttl["personal"] < cache_ttl["factual"]

\* ------------------------------------------ claims on the combined result
\* The signals of the sources that produced one: a source whose output is
\* empty produced none.
C21_Signals(results) ==
    (IF "rag" \in DOMAIN results /\ results.rag.results # <<>>
     THEN <<FracDivInt(FracSum([i \in 1..Len(results.rag.results) |->
                                    results.rag.results[i].score]),
                       Len(results.rag.results))>>
     ELSE <<>>)
    \o (IF "kag" \in DOMAIN results /\ results.kag.relationships # <<>>
        THEN <<FracMin(Frac(Len(results.kag.relationships), 10), One)>> ELSE <<>>)
    \o (IF "temporal" \in DOMAIN results /\ results.temporal.timeline # <<>>
        THEN <<FracMin(Frac(Len(results.temporal.timeline), 5), One)>> ELSE <<>>)

\* C21: the confidence is the unweighted mean of the signals of the sources
\* that produced one, and 0.5 when no source produced a signal, as when every
\* output is empty.
C21_MeanOfSignalsOrHalf ==
    last.op = "_calculate_confidence" =>
        last.ret = IF C21_Signals(last.results) = <<>> THEN Half
                   ELSE FracDivInt(FracSum(C21_Signals(last.results)),
                                   Len(C21_Signals(last.results)))

\* The query type the claim derives from the retrievals the strategy ran.
C22_Expected(strategy) ==
    IF strategy.use_temporal THEN "temporal"
    ELSE IF strategy.use_rag /\ strategy.use_kag THEN "analytical"
    ELSE IF strategy.use_rag THEN "factual"
    ELSE "general"

\* The request of the last step went through the pipeline and wrote the cache.
C22_Wrote ==
    /\ last.op = "process_query"
    /\ last.request.use_cache
    /\ ~last.raised
    /\ ~last.ret[1].cached

C22_Keys == _generate_cache_keys(last.request.query, RequestContext(last.request))

\* C22: the record a request writes to the cache has the query type derived
\* from the retrievals that ran: temporal if temporal search ran, else
\* analytical if semantic and graph search ran, else factual if semantic search
\* ran, else general; never personal.
C22_QueryTypeFromStrategies ==
    C22_Wrote =>
        \A i \in 1..Len(C22_Keys) :
            /\ C22_Keys[i] \in DOMAIN store
            /\ store[C22_Keys[i]].val.query_type = C22_Expected(last.strategy[1])
            /\ store[C22_Keys[i]].val.query_type # "personal"
            /\ store[C22_Keys[i]].val.ttl = cache_ttl[C22_Expected(last.strategy[1])]

\* A request answered from graph search alone was stored as general.
C22_Witness ==
    /\ C22_Wrote
    /\ ~last.strategy[1].use_rag
    /\ last.strategy[1].use_kag
    /\ ~last.strategy[1].use_temporal
    /\ store[C22_Keys[1]].val.query_type = "general"

\* The entries of one category in a list of sources.
C23_OfType(sources, type) == SelectSeq(sources, LAMBDA x : x.type = type)

\* C23: each category of sources (document, relationship, temporal) is capped
\* separately to its first 5 entries before the answer is synthesized: the
\* prompt holds of each category the first 5 entries that were found.
C23_EachCategoryCapped ==
    last.op = "_combine_results" =>
        \A type \in {"document", "relationship", "temporal"} :
            C23_OfType(last.prompt.sources, type) =
                Take(C23_OfType(last.ret.sources, type), 5)

\* The arrivals in another order.
C24_Reordered(order) == [i \in 1..Len(order) |-> last.arrivals[order[i]]]

C25_Key == "semantic_embeddings:" \o _get_semantic_hash(last.query)

\* C25: update_cache indexes the query's embedding under a key derived from
\* the query's semantic hash, for at least the TTL of analytical, so that
\* queries with the same keywords share one index entry.
C25_IndexedUnderSemanticHash ==
    last.op = "update_cache" =>
        /\ C25_Key \in DOMAIN store
        /\ store[C25_Key].val.query = last.query
        /\ store[C25_Key].exp >= last.at + cache_ttl["analytical"]
        /\ \A k \in RedisKeys(store, IndexPattern) :
              _get_semantic_hash(store[k].val.query) = _get_semantic_hash(last.query)
                  => k = C25_Key

\* The embedding of the query of the lookup that ends in the primed state.
C26_QueryEmbedding == embed_text(last'.query, last'.embedOk)

\* C26: the cosine similarity with a zero vector is 0 and is never a match:
\* a lookup whose embedding call failed gets nothing from the similarity
\* fallback, and no index entry with a zero embedding is ever returned by it.
C26_ZeroVectorNeverMatches ==
    [][(nops' # nops /\ last'.op = "check_cache") =>
          /\ \A k \in RedisKeys(store, IndexPattern) :
                (C26_QueryEmbedding = ZeroVector \/ store[k].val.embedding = ZeroVector)
                    => /\ _cosine_similarity(C26_QueryEmbedding,
                                             store[k].val.embedding) = SimZero
                       /\ _cosine_similarity(store[k].val.embedding,
                                             C26_QueryEmbedding) = SimZero
          /\ ~SimGreater(SimZero, similarity_threshold)
          /\ (last'.ret # <<>> /\ "similarity_score" \in DOMAIN last'.ret[1]) =>
                /\ last'.embedOk
                /\ \E k \in RedisKeys(store, IndexPattern) :
                      /\ store[k].val.query = last'.ret[1].original_query
                      /\ store[k].val.embedding # ZeroVector
          /\ (~last'.embedOk /\ last'.ret # <<>>) => "cache_key" \in DOMAIN last'.ret[1]]_vars

\* A lookup whose embedding call failed, for a query with no candidate key in
\* the store, missed although the index holds an entry, itself with a zero
\* embedding.
C26_Witness ==
    /\ last.op = "check_cache"
    /\ ~last.embedOk
    /\ last.ret = <<>>
    /\ C4_NoCandidateKey
    /\ \E k \in RedisKeys(store, IndexPattern) : store[k].val.embedding = ZeroVector

\* C27: the confidence stored with the record of a request is the confidence
\* of the response the combiner produced for it, neither recomputed nor
\* replaced by the default.
C27_StoredConfidenceIsResponse ==
    C22_Wrote =>
        \A i \in 1..Len(C22_Keys) :
            /\ C22_Keys[i] \in DOMAIN store
            /\ store[C22_Keys[i]].val.confidence = last.ret[1].confidence
            /\ store[C22_Keys[i]].val.result.confidence = last.ret[1].confidence
            /\ last.ret[1].confidence =
                   _calculate_confidence(
                       (IF last.strategy[1].use_rag
                        THEN [rag |-> search(last.request.query, last.env.rag)] ELSE <<>>)
                       @@ (IF last.strategy[1].use_kag
                           THEN [kag |-> analyze_relationships(last.request.query,
                                                               last.env.kag).ret]
                           ELSE <<>>)
                       @@ (IF last.strategy[1].use_temporal
                           THEN [temporal |-> temporal_search(last.request.query,
                                                              last.env.temporal)]
                           ELSE <<>>))

\* A response of confidence 0.94, from two strong semantic hits, was stored
\* with that confidence.
C27_Witness ==
    /\ C22_Wrote
    /\ last.ret[1].confidence = Frac(94, 100)
    /\ store[C22_Keys[1]].val.confidence = Frac(94, 100)

\* ------------------------------------------- claims on requests and the cache
\* C28: a request with use_cache = FALSE performs no cache operation: it is
\* never answered from the cache, deletes no stale key and writes nothing; the
\* store is the same before and after it.
C28_NoCacheUseLeavesStore ==
    [][(nops' # nops /\ last'.op = "process_query" /\ ~last'.request.use_cache) =>
          /\ store' = store
          /\ ~last'.raised
          /\ ~last'.ret[1].cached
          /\ last'.strategy # <<>>]_vars

\* A request with use_cache = FALSE was answered while the store held a stale
\* record of its query under the exact key, and the record is still there.
C28_Witness ==
    /\ last.op = "process_query"
    /\ ~last.request.use_cache
    /\ ~last.raised
    /\ C22_Keys[1] \in DOMAIN store
    /\ ~_is_fresh(store[C22_Keys[1]].val, last.at)

\* The calls of process_query under way or ended.
C29_Calls ==
    {c \in {call} \cup (IF last.op = "suspended" THEN {last.call} ELSE {}) :
        c.pc # "idle"}

\* C29: in-flight requests are not deduplicated: every call that got no cached
\* response runs the planner, its enabled retrievals and the synthesis, and
\* writes its own record to the cache, whatever another call for the same
\* query is doing or has written meanwhile.
C29_NoDeduplication ==
    [][/\ (call.pc = "cache_write" /\ call.pending # <<>> /\ last' = last) =>
              /\ call'.pending = Tail(call.pending)
              /\ store'[Head(call.pending)].val = call.cache_data[1]
       /\ \A c \in C29_Calls' :
              c.pc = "returned" =>
                 /\ ~c.response[1].cached
                 /\ c.strategy # <<>>
                 /\ c.completed = Enabled(c.strategy[1])
                 /\ DOMAIN c.results = Enabled(c.strategy[1])
                 /\ c.response[1].answer = AnswerText
                 /\ c.cache_data # <<>>
                 /\ c.cache_data[1].result.strategy_used = c.strategies_used
                 /\ c.pending = <<>>]_vars

\* Two calls for the same query have both been through their cache check and
\* their pipeline with different plans, and both stand at their cache write
\* while the store is still empty.
C29_Witness ==
    /\ store = <<>>
    /\ last.op = "suspended"
    /\ call.pc = "cache_write"
    /\ last.call.pc = "cache_write"
    /\ call.request.query = last.call.request.query
    /\ call.strategies_used # last.call.strategies_used

\* C30: a lookup never returns a record that is not fresh, whether the record
\* comes from a key probe or from the similarity fallback: of every record
\* returned at time t, t - cached_at < ttl.
C30_LookupReturnsFreshOnly ==
    last.op = "check_cache" =>
        \A i \in 1..Len(last.ret) : last.at - last.ret[i].cached_at < last.ret[i].ttl

\* C31: once two concurrent stores for the same query and context with
\* different records have both completed, all keys of the query hold one and
\* the same record.
C31_KeysAgreeAfterBothStores ==
    (/\ last.op = "suspended"
     /\ call.pc = "returned"
     /\ last.call.pc = "returned"
     /\ call.request = last.call.request
     /\ call.cache_data # <<>>
     /\ last.call.cache_data # <<>>
     /\ call.cache_data # last.call.cache_data) =>
        \A i, j \in 1..Len(CallKeys) :
            /\ CallKeys[i] \in DOMAIN store
            /\ store[CallKeys[i]].val = store[CallKeys[j]].val

\* C32: a lookup deletes a key only if the record stored under it at the time
\* of the delete is stale: a fresh record written between the lookup's read
\* and its delete is not removed.
C32_DeletesOnlyStale ==
    [][(call.pc = "delete" /\ call'.pc = "get") =>
          \A k \in DOMAIN store \ DOMAIN store' : ~_is_fresh(store[k].val, now)]_vars

\* C33 as stated: a lookup returns only records written with the user id the
\* lookup carries.
C33_ReturnedRecordIsCallersOwn ==
    last.op = "check_cache" =>
        \A i \in 1..Len(last.ret) :
            last.ret[i].user_context.user_id = last.user_context.user_id

C33_ExactKey == "exact:" \o _hash_text(last'.query)

\* C33: cached answers are shared between users through the keys that carry
\* no user id: a lookup returns the fresh record under the exact key of the
\* query text, whoever stored it; only a key user:<id>:<hash> is private, a
\* lookup returns a record through it only when it carries that user id.
C33_SharedThroughExactKey ==
    [][(nops' # nops /\ last'.op = "check_cache") =>
          /\ (/\ C33_ExactKey \in DOMAIN store
              /\ _is_fresh(store[C33_ExactKey].val, now)) =>
                 last'.ret = Some([cache_key |-> C33_ExactKey] @@ store[C33_ExactKey].val)
          /\ \A i \in 1..Len(last'.ret) :
                ("cache_key" \in DOMAIN last'.ret[i]
                    /\ GlobMatch("user:*", last'.ret[i].cache_key)) =>
                   /\ Truthy(last'.user_context.user_id)
                   /\ last'.ret[i].cache_key =
                         "user:" \o last'.user_context.user_id \o ":"
                            \o _hash_text(last'.query)]_vars

\* A lookup carrying one user id returned, through the exact key, the record a
\* request carrying another user id had stored.
C33_Witness ==
    /\ last.op = "check_cache"
    /\ last.ret # <<>>
    /\ "cache_key" \in DOMAIN last.ret[1]
    /\ last.ret[1].cache_key = "exact:" \o _hash_text(last.query)
    /\ Truthy(last.user_context.user_id)
    /\ Truthy(last.ret[1].user_context.user_id)
    /\ last.ret[1].user_context.user_id # last.user_context.user_id

\* The keys of the record of the step's request, and the key of its entry in
\* the embedding index.
C34_Keys ==
    _generate_cache_keys(last'.request.query, RequestContext(last'.request))

C34_RecordKeys ==
    {C34_Keys[i] : i \in 1..Len(C34_Keys)}
        \cup {"semantic_embeddings:" \o _hash_text(last'.request.query)}

\* A SETEX of the loop of store fails after at least one key was written.
C34_FailsPartWay ==
    /\ last'.env.kvStore # <<>>
    /\ last'.env.kvStore[1] >= 1
    /\ last'.env.kvStore[1] < Len(C34_Keys)

\* C34: store is all-or-nothing: when a write to the key-value store fails
\* part-way through store, none of the record's keys holds the new record and
\* the embedding index has no entry for it; every key of the record that is
\* in the store afterwards holds what it held before.
C34_StoreAllOrNothing ==
    [][(/\ nops' # nops
        /\ last'.op = "process_query"
        /\ last'.request.use_cache
        /\ C14_NoCachedResponse
        /\ ~C14_Lookup.raised
        /\ C34_FailsPartWay) =>
          \A k \in C34_RecordKeys :
              k \in DOMAIN store' => (k \in DOMAIN store /\ store'[k] = store[k])]_vars

\* C35: a lookup changes the store only by deleting candidate keys whose
\* record is stale: it writes no key, leaves the content and the TTL of every
\* other entry as they were (the record it returns is tagged in the returned
\* copy only), and leaves the store unchanged when the first probed key hits.
C35_LookupOnlyDeletesStale ==
    [][(nops' # nops /\ last'.op = "check_cache") =>
          /\ DOMAIN store' \subseteq DOMAIN store
          /\ \A k \in DOMAIN store' : store'[k] = store[k]
          /\ \A k \in DOMAIN store \ DOMAIN store' :
                /\ \E i \in 1..Len(C19_Keys) : C19_Keys[i] = k
                /\ ~_is_fresh(store[k].val, now)
          /\ (/\ last'.ret # <<>>
              /\ "cache_key" \in DOMAIN last'.ret[1]
              /\ last'.ret[1].cache_key = C19_Keys[1]) => store' = store]_vars

\* A lookup for user 42 hit on the first probed key: the record in the store
\* carries no tag, and the stale record under the user key, behind the hit, is
\* still there.
C35_Witness ==
    /\ last.op = "check_cache"
    /\ last.ret # <<>>
    /\ "cache_key" \in DOMAIN last.ret[1]
    /\ LET keys == _generate_cache_keys(last.query, last.user_context) IN
       /\ Len(keys) = 5
       /\ last.ret[1].cache_key = keys[1]
       /\ "cache_key" \notin DOMAIN store[keys[1]].val
       /\ keys[3] \in DOMAIN store
       /\ ~_is_fresh(store[keys[3]].val, now)

\* The keys of the request of the step.
C36_Keys ==
    _generate_cache_keys(last'.request.query, RequestContext(last'.request))

\* Before the step the exact key of the request's query holds a fresh record
\* whose confidence is at most 0.9.
C36_HoldsUnservedRecord ==
    /\ C36_Keys[1] \in DOMAIN store
    /\ _is_fresh(store[C36_Keys[1]].val, now)
    /\ ~FracLess(Frac(9, 10), store[C36_Keys[1]].val.confidence)

C37_State(c) ==
    CASE c.pc = "cache_check" -> 1
      [] c.pc = "planning" -> 2
      [] c.pc \in {"rag", "kag", "temporal"} -> 3
      [] c.pc = "combining" -> 4
      [] c.pc = "returned" -> 5
      [] c.pc = "cache_write" -> 6

\* C37: a request passes through its states only in the order CACHE_CHECK,
\* PLANNING, RETRIEVAL, COMBINING, ANSWERED, CACHE_WRITE, on its way to a
\* terminal state: the response returned from the cache right after
\* CACHE_CHECK, the response returned in ANSWERED, or an error.
C37_StatesInOrder ==
    [][(call.pc \in InFlight /\ call'.pc \notin {call.pc, "raised", "cancelled"}) =>
          IF call'.pc = "returned" /\ call'.response[1].cached
          THEN call.pc = "cache_check"
          ELSE C37_State(call) <= C37_State(call')]_vars

====
